---- MODULE Spec2Model ----
(***************************************************************************)
(* AES-256 converter: the cipher engine (Galois-field arithmetic, key      *)
(* schedule, round transformations, block and text encryption/decryption), *)
(* the padding and hex helpers, modelled from the JavaScript sources.      *)
(*                                                                         *)
(* JavaScript arrays are 0-based; sequences here are 1-based, so a[i] of   *)
(* the source is a[i + 1] here.  A read outside an array yields the value  *)
(* `undefined`, modelled by the constant undefined below.                  *)
(***************************************************************************)
EXTENDS Integers, Sequences, FiniteSets, TLC

\* ------------------------------------------------------------------------
\* JavaScript value semantics
\* ------------------------------------------------------------------------

\* the JavaScript value `undefined` (array read out of range)
undefined ==
  0 - 1

\* ToInt32 as applied by the bitwise operators: undefined becomes 0
ToInt32(x) ==
  IF x = undefined THEN 0 ELSE x

XorNibble ==
  << <<0, 1, 2, 3, 4, 5, 6, 7, 8, 9, 10, 11, 12, 13, 14, 15>>,
     <<1, 0, 3, 2, 5, 4, 7, 6, 9, 8, 11, 10, 13, 12, 15, 14>>,
     <<2, 3, 0, 1, 6, 7, 4, 5, 10, 11, 8, 9, 14, 15, 12, 13>>,
     <<3, 2, 1, 0, 7, 6, 5, 4, 11, 10, 9, 8, 15, 14, 13, 12>>,
     <<4, 5, 6, 7, 0, 1, 2, 3, 12, 13, 14, 15, 8, 9, 10, 11>>,
     <<5, 4, 7, 6, 1, 0, 3, 2, 13, 12, 15, 14, 9, 8, 11, 10>>,
     <<6, 7, 4, 5, 2, 3, 0, 1, 14, 15, 12, 13, 10, 11, 8, 9>>,
     <<7, 6, 5, 4, 3, 2, 1, 0, 15, 14, 13, 12, 11, 10, 9, 8>>,
     <<8, 9, 10, 11, 12, 13, 14, 15, 0, 1, 2, 3, 4, 5, 6, 7>>,
     <<9, 8, 11, 10, 13, 12, 15, 14, 1, 0, 3, 2, 5, 4, 7, 6>>,
     <<10, 11, 8, 9, 14, 15, 12, 13, 2, 3, 0, 1, 6, 7, 4, 5>>,
     <<11, 10, 9, 8, 15, 14, 13, 12, 3, 2, 1, 0, 7, 6, 5, 4>>,
     <<12, 13, 14, 15, 8, 9, 10, 11, 4, 5, 6, 7, 0, 1, 2, 3>>,
     <<13, 12, 15, 14, 9, 8, 11, 10, 5, 4, 7, 6, 1, 0, 3, 2>>,
     <<14, 15, 12, 13, 10, 11, 8, 9, 6, 7, 4, 5, 2, 3, 0, 1>>,
     <<15, 14, 13, 12, 11, 10, 9, 8, 7, 6, 5, 4, 3, 2, 1, 0>> >>

RECURSIVE XorInt(_, _)
\* a ^ b on non-negative integers, four bits at a time
XorInt(a, b) ==
  IF a < 16 /\ b < 16 THEN XorNibble[a + 1][b + 1]
  ELSE XorNibble[(a % 16) + 1][(b % 16) + 1] + 16 * XorInt(a \div 16, b \div 16)

\* the JavaScript operator ^
Xor(a, b) ==
  XorInt(ToInt32(a), ToInt32(b))

\* x & 0x80: the bit of weight 128
And0x80(x) ==
  ((ToInt32(x) \div 128) % 2) * 128

\* x & 0xff: the low eight bits
And0xff(x) ==
  ToInt32(x) % 256

\* JavaScript evaluates the operands of an assignment before it goes on:
\* value is computed first, then the rest
Strict(value, rest) ==
  IF value = value THEN rest ELSE rest

\* array[index] of JavaScript: undefined outside the array
At(array, index) ==
  IF index >= 0 /\ index < Len(array) THEN array[index + 1] ELSE undefined

\* array.slice(from, to) of JavaScript, for 0 <= from
Slice(array, from, to) ==
  LET hi == IF to > Len(array) THEN Len(array) ELSE to
  IN  IF from >= hi THEN << >> ELSE SubSeq(array, from + 1, hi)

\* ------------------------------------------------------------------------
\* constants.js
\* ------------------------------------------------------------------------

BLOCK_SIZE ==
  16

NUMBER_OF_ROUNDS ==
  14

KEY_SIZE_WORDS ==
  8

S_BOX ==
  <<
    99, 124, 119, 123, 242, 107, 111, 197, 48, 1, 103, 43, 254, 215, 171, 118,
    202, 130, 201, 125, 250, 89, 71, 240, 173, 212, 162, 175, 156, 164, 114, 192,
    183, 253, 147, 38, 54, 63, 247, 204, 52, 165, 229, 241, 113, 216, 49, 21,
    4, 199, 35, 195, 24, 150, 5, 154, 7, 18, 128, 226, 235, 39, 178, 117,
    9, 131, 44, 26, 27, 110, 90, 160, 82, 59, 214, 179, 41, 227, 47, 132,
    83, 209, 0, 237, 32, 252, 177, 91, 106, 203, 190, 57, 74, 76, 88, 207,
    208, 239, 170, 251, 67, 77, 51, 133, 69, 249, 2, 127, 80, 60, 159, 168,
    81, 163, 64, 143, 146, 157, 56, 245, 188, 182, 218, 33, 16, 255, 243, 210,
    205, 12, 19, 236, 95, 151, 68, 23, 196, 167, 126, 61, 100, 93, 25, 115,
    96, 129, 79, 220, 34, 42, 144, 136, 70, 238, 184, 20, 222, 94, 11, 219,
    224, 50, 58, 10, 73, 6, 36, 92, 194, 211, 172, 98, 145, 149, 228, 121,
    231, 200, 55, 109, 141, 213, 78, 169, 108, 86, 244, 234, 101, 122, 174, 8,
    186, 120, 37, 46, 28, 166, 180, 198, 232, 221, 116, 31, 75, 189, 139, 138,
    112, 62, 181, 102, 72, 3, 246, 14, 97, 53, 87, 185, 134, 193, 29, 158,
    225, 248, 152, 17, 105, 217, 142, 148, 155, 30, 135, 233, 206, 85, 40, 223,
    140, 161, 137, 13, 191, 230, 66, 104, 65, 153, 45, 15, 176, 84, 187, 22 >>

INVERSE_S_BOX ==
  <<
    82, 9, 106, 213, 48, 54, 165, 56, 191, 64, 163, 158, 129, 243, 215, 251,
    124, 227, 57, 130, 155, 47, 255, 135, 52, 142, 67, 68, 196, 222, 233, 203,
    84, 123, 148, 50, 166, 194, 35, 61, 238, 76, 149, 11, 66, 250, 195, 78,
    8, 46, 161, 102, 40, 217, 36, 178, 118, 91, 162, 73, 109, 139, 209, 37,
    114, 248, 246, 100, 134, 104, 152, 22, 212, 164, 92, 204, 93, 101, 182, 146,
    108, 112, 72, 80, 253, 237, 185, 218, 94, 21, 70, 87, 167, 141, 157, 132,
    144, 216, 171, 0, 140, 188, 211, 10, 247, 228, 88, 5, 184, 179, 69, 6,
    208, 44, 30, 143, 202, 63, 15, 2, 193, 175, 189, 3, 1, 19, 138, 107,
    58, 145, 17, 65, 79, 103, 220, 234, 151, 242, 207, 206, 240, 180, 230, 115,
    150, 172, 116, 34, 231, 173, 53, 133, 226, 249, 55, 232, 28, 117, 223, 110,
    71, 241, 26, 113, 29, 41, 197, 137, 111, 183, 98, 14, 170, 24, 190, 27,
    252, 86, 62, 75, 198, 210, 121, 32, 154, 219, 192, 254, 120, 205, 90, 244,
    31, 221, 168, 51, 136, 7, 199, 49, 177, 18, 16, 89, 39, 128, 236, 95,
    96, 81, 127, 169, 25, 181, 74, 13, 45, 229, 122, 159, 147, 201, 156, 239,
    160, 224, 59, 77, 174, 42, 245, 176, 200, 235, 187, 60, 131, 83, 153, 97,
    23, 43, 4, 126, 186, 119, 214, 38, 225, 105, 20, 99, 85, 33, 12, 125 >>

\* Rcon, index 0 unused
ROUND_CONSTANTS ==
  << 0, 1, 2, 4, 8, 16, 32, 64, 128, 27, 54, 108, 216, 171, 77 >>

\* table[byte] of JavaScript: undefined index reads undefined
Lookup(table, byte) ==
  IF byte = undefined THEN undefined ELSE table[byte + 1]

\* ------------------------------------------------------------------------
\* galoisField.js
\* ------------------------------------------------------------------------

multiplyByTwo(byte) ==
  LET result == ToInt32(byte) * 2   \* byte << 1
  IN  And0xff(IF And0x80(byte) # 0 THEN Xor(result, 27) ELSE result)

multiplyByThree(byte) ==
  Xor(multiplyByTwo(byte), byte)

RECURSIVE galoisLoop(_, _, _, _)
\* the loop of galoisMultiply after i passes: "if (tempB & 1) product ^=
\* tempA", tempA shifted left without a mask and reduced when its bit of
\* weight 128 was set, tempB shifted right
galoisLoop(i, product, tempA, tempB) ==
  IF i >= 8 THEN product
  ELSE galoisLoop(i + 1,
                  IF tempB % 2 = 1 THEN Xor(product, tempA) ELSE product,
                  IF And0x80(tempA) # 0 THEN Xor(tempA * 2, 27)
                  ELSE tempA * 2,
                  tempB \div 2)

\* galoisMultiply that returns product without "& 0xff"
galoisMultiplyUnmasked(a, b) ==
  galoisLoop(0, 0, ToInt32(a), ToInt32(b))

galoisMultiply(a, b) ==
  And0xff(galoisLoop(0, 0, ToInt32(a), ToInt32(b)))

multiplyByNine(byte) ==
  Xor(multiplyByTwo(multiplyByTwo(multiplyByTwo(byte))), byte)

\* multiplication by 11 without the term times 2
multiplyByElevenWithoutTimesTwo(byte) ==
  Xor(multiplyByTwo(multiplyByTwo(multiplyByTwo(byte))), byte)

multiplyByEleven(byte) ==
  LET times2 == multiplyByTwo(byte)
      times8 == multiplyByTwo(multiplyByTwo(times2))
  IN  Xor(Xor(times8, times2), byte)

\* multiplication by 13 with the term times 4 replaced by times 2
multiplyByThirteenTimesTwo(byte) ==
  LET times2 == multiplyByTwo(byte)
      times4 == multiplyByTwo(times2)
      times8 == multiplyByTwo(times4)
  IN  Xor(Xor(times8, times2), byte)

multiplyByThirteen(byte) ==
  LET times2 == multiplyByTwo(byte)
      times4 == multiplyByTwo(times2)
      times8 == multiplyByTwo(times4)
  IN  Xor(Xor(times8, times4), byte)

multiplyByFourteen(byte) ==
  LET times2 == multiplyByTwo(byte)
      times4 == multiplyByTwo(times2)
      times8 == multiplyByTwo(times4)
  IN  Xor(Xor(times8, times4), times2)

\* ------------------------------------------------------------------------
\* utils.js: state matrix operations
\* ------------------------------------------------------------------------

\* state[row][col] = bytes[col * 4 + row]
bytesToStateMatrix(bytes) ==
  << << At(bytes, 0), At(bytes, 4), At(bytes, 8),  At(bytes, 12) >>,
     << At(bytes, 1), At(bytes, 5), At(bytes, 9),  At(bytes, 13) >>,
     << At(bytes, 2), At(bytes, 6), At(bytes, 10), At(bytes, 14) >>,
     << At(bytes, 3), At(bytes, 7), At(bytes, 11), At(bytes, 15) >> >>

\* the bytes of a state row by row
stateMatrixToBytesRowMajor(state) ==
  state[1] \o state[2] \o state[3] \o state[4]

\* bytes.push(state[row][col]) for col = 0..3, row = 0..3
stateMatrixToBytes(state) ==
  << state[1][1], state[2][1], state[3][1], state[4][1],
     state[1][2], state[2][2], state[3][2], state[4][2],
     state[1][3], state[2][3], state[3][3], state[4][3],
     state[1][4], state[2][4], state[3][4], state[4][4] >>

copyStateMatrix(state) ==
  << << state[1][1], state[1][2], state[1][3], state[1][4] >>,
     << state[2][1], state[2][2], state[2][3], state[2][4] >>,
     << state[3][1], state[3][2], state[3][3], state[3][4] >>,
     << state[4][1], state[4][2], state[4][3], state[4][4] >> >>

\* ------------------------------------------------------------------------
\* transformations.js
\* ------------------------------------------------------------------------

\* one row of a state, cell by cell
MapRow(F(_), row) ==
  << F(row[1]), F(row[2]), F(row[3]), F(row[4]) >>

SBoxOf(byte) ==
  Lookup(S_BOX, byte)

InverseSBoxOf(byte) ==
  Lookup(INVERSE_S_BOX, byte)

substituteBytes(state) ==
  << MapRow(SBoxOf, state[1]), MapRow(SBoxOf, state[2]),
     MapRow(SBoxOf, state[3]), MapRow(SBoxOf, state[4]) >>

inverseSubstituteBytes(state) ==
  << MapRow(InverseSBoxOf, state[1]), MapRow(InverseSBoxOf, state[2]),
     MapRow(InverseSBoxOf, state[3]), MapRow(InverseSBoxOf, state[4]) >>

shiftRows(state) ==
  << << state[1][1], state[1][2], state[1][3], state[1][4] >>,
     << state[2][2], state[2][3], state[2][4], state[2][1] >>,
     << state[3][3], state[3][4], state[3][1], state[3][2] >>,
     << state[4][4], state[4][1], state[4][2], state[4][3] >> >>

\* inverseShiftRows with rows 1 and 3 rotated to the left
inverseShiftRowsToTheLeft(state) ==
  shiftRows(state)

inverseShiftRows(state) ==
  << << state[1][1], state[1][2], state[1][3], state[1][4] >>,
     << state[2][4], state[2][1], state[2][2], state[2][3] >>,
     << state[3][3], state[3][4], state[3][1], state[3][2] >>,
     << state[4][2], state[4][3], state[4][4], state[4][1] >> >>

\* the four output bytes of MixColumns for one column (s0, s1, s2, s3)
mixColumn(s0, s1, s2, s3) ==
  << Xor(Xor(Xor(multiplyByTwo(s0), multiplyByThree(s1)), s2), s3),
     Xor(Xor(Xor(s0, multiplyByTwo(s1)), multiplyByThree(s2)), s3),
     Xor(Xor(Xor(s0, s1), multiplyByTwo(s2)), multiplyByThree(s3)),
     Xor(Xor(Xor(multiplyByThree(s0), s1), s2), multiplyByTwo(s3)) >>

\* the four output bytes of InvMixColumns for one column (s0, s1, s2, s3)
inverseMixColumn(s0, s1, s2, s3) ==
  << Xor(Xor(Xor(multiplyByFourteen(s0), multiplyByEleven(s1)),
             multiplyByThirteen(s2)), multiplyByNine(s3)),
     Xor(Xor(Xor(multiplyByNine(s0), multiplyByFourteen(s1)),
             multiplyByEleven(s2)), multiplyByThirteen(s3)),
     Xor(Xor(Xor(multiplyByThirteen(s0), multiplyByNine(s1)),
             multiplyByFourteen(s2)), multiplyByEleven(s3)),
     Xor(Xor(Xor(multiplyByEleven(s0), multiplyByThirteen(s1)),
             multiplyByNine(s2)), multiplyByFourteen(s3)) >>

\* a state from its four columns, each a tuple of the rows 0..3
FromColumns(c0, c1, c2, c3) ==
  << << c0[1], c1[1], c2[1], c3[1] >>,
     << c0[2], c1[2], c2[2], c3[2] >>,
     << c0[3], c1[3], c2[3], c3[3] >>,
     << c0[4], c1[4], c2[4], c3[4] >> >>

mixColumns(state) ==
  LET c0 == mixColumn(state[1][1], state[2][1], state[3][1], state[4][1])
      c1 == mixColumn(state[1][2], state[2][2], state[3][2], state[4][2])
      c2 == mixColumn(state[1][3], state[2][3], state[3][3], state[4][3])
      c3 == mixColumn(state[1][4], state[2][4], state[3][4], state[4][4])
  IN  FromColumns(c0, c1, c2, c3)

\* inverseMixColumns with the matrix of mixColumns
inverseMixColumnsForward(state) ==
  mixColumns(state)

inverseMixColumns(state) ==
  LET c0 == inverseMixColumn(state[1][1], state[2][1], state[3][1], state[4][1])
      c1 == inverseMixColumn(state[1][2], state[2][2], state[3][2], state[4][2])
      c2 == inverseMixColumn(state[1][3], state[2][3], state[3][3], state[4][3])
      c3 == inverseMixColumn(state[1][4], state[2][4], state[3][4], state[4][4])
  IN  FromColumns(c0, c1, c2, c3)

\* newState[row][col] = state[row][col] ^ roundKey[row][col]
addRoundKey(state, roundKey) ==
  << << Xor(state[1][1], roundKey[1][1]), Xor(state[1][2], roundKey[1][2]),
        Xor(state[1][3], roundKey[1][3]), Xor(state[1][4], roundKey[1][4]) >>,
     << Xor(state[2][1], roundKey[2][1]), Xor(state[2][2], roundKey[2][2]),
        Xor(state[2][3], roundKey[2][3]), Xor(state[2][4], roundKey[2][4]) >>,
     << Xor(state[3][1], roundKey[3][1]), Xor(state[3][2], roundKey[3][2]),
        Xor(state[3][3], roundKey[3][3]), Xor(state[3][4], roundKey[3][4]) >>,
     << Xor(state[4][1], roundKey[4][1]), Xor(state[4][2], roundKey[4][2]),
        Xor(state[4][3], roundKey[4][3]), Xor(state[4][4], roundKey[4][4]) >> >>

\* ------------------------------------------------------------------------
\* transformations.js on arrays as JavaScript holds them: a heap is the
\* sequence of the arrays allocated so far, an array is known by its
\* position in the heap, a state matrix is an array of four rows.  Each
\* function returns the heap it leaves and the array it returns.
\* ------------------------------------------------------------------------

\* state[row][col]
readCell(heap, state, row, col) ==
  heap[heap[state][row + 1]][col + 1]

\* state[row][col] = value
writeCell(heap, state, row, col, value) ==
  [heap EXCEPT ![heap[state][row + 1]][col + 1] = value]

\* state[row] = [ ...cells ]: a new array becomes row row of state
writeRow(heap, state, row, cells) ==
  [Append(heap, cells) EXCEPT ![state][row + 1] = Len(heap) + 1]

\* [...state]: a new outer array that holds the rows of state themselves
copyStateMatrixShallow(heap, state) ==
  [heap |-> Append(heap, heap[state]), at |-> Len(heap) + 1]

\* state.map(row => [...row]): four new rows and a new outer array
copyStateMatrixInHeap(heap, state) ==
  [heap |-> heap \o << heap[heap[state][1]], heap[heap[state][2]],
                       heap[heap[state][3]], heap[heap[state][4]],
                       << Len(heap) + 1, Len(heap) + 2,
                          Len(heap) + 3, Len(heap) + 4 >> >>,
   at |-> Len(heap) + 5]

\* the value written to newState[row][col] by the functions that go cell
\* by cell
cellValue(fn, heap, state, roundKey, row, col) ==
  CASE fn = "substituteBytes" -> Lookup(S_BOX, readCell(heap, state, row, col))
    [] fn = "inverseSubstituteBytes" ->
         Lookup(INVERSE_S_BOX, readCell(heap, state, row, col))
    [] fn = "addRoundKey" ->
         Xor(readCell(heap, state, row, col), readCell(heap, roundKey, row, col))

RECURSIVE writeCells(_, _, _, _, _, _)
\* "for (row) for (col) newState[row][col] = ..." from cell k on, k = 4 *
\* row + col
writeCells(fn, heap, newState, state, roundKey, k) ==
  IF k >= 16 THEN heap
  ELSE writeCells(fn,
                  writeCell(heap, newState, k \div 4, k % 4,
                            cellValue(fn, heap, state, roundKey,
                                      k \div 4, k % 4)),
                  newState, state, roundKey, k + 1)

\* newState[row] = [state[row][order[0]], ...]
shiftRow(heap, newState, state, row, order) ==
  writeRow(heap, newState, row,
           << readCell(heap, state, row, order[1]),
              readCell(heap, state, row, order[2]),
              readCell(heap, state, row, order[3]),
              readCell(heap, state, row, order[4]) >>)

\* the four assignments to newState[0] .. newState[3]
shiftedRows(heap, newState, state, order1, order3) ==
  shiftRow(
    shiftRow(
      shiftRow(
        writeRow(heap, newState, 0, heap[heap[state][1]]),
        newState, state, 1, order1),
      newState, state, 2, << 2, 3, 0, 1 >>),
    newState, state, 3, order3)

\* newState[0][col] .. newState[3][col] = the four bytes of column
writeColumn(heap, newState, col, column) ==
  writeCell(
    writeCell(
      writeCell(
        writeCell(heap, newState, 0, col, column[1]),
        newState, 1, col, column[2]),
      newState, 2, col, column[3]),
    newState, 3, col, column[4])

\* s0 .. s3 of a column, mixed
mixedColumn(fn, heap, state, col) ==
  IF fn = "mixColumns"
  THEN mixColumn(readCell(heap, state, 0, col), readCell(heap, state, 1, col),
                 readCell(heap, state, 2, col), readCell(heap, state, 3, col))
  ELSE inverseMixColumn(readCell(heap, state, 0, col),
                        readCell(heap, state, 1, col),
                        readCell(heap, state, 2, col),
                        readCell(heap, state, 3, col))

RECURSIVE writeColumns(_, _, _, _, _)
\* "for (col) { const s0 = ...; newState[0][col] = ...; }" from column col on
writeColumns(fn, heap, newState, state, col) ==
  IF col >= 4 THEN heap
  ELSE writeColumns(fn,
                    writeColumn(heap, newState, col,
                                mixedColumn(fn, heap, state, col)),
                    newState, state, col + 1)

\* the body of a transformation after "const newState =
\* copyStateMatrix(state)"
transformedCopy(fn, copy, state, roundKey) ==
  [heap |->
     CASE fn \in {"substituteBytes", "inverseSubstituteBytes", "addRoundKey"} ->
            writeCells(fn, copy.heap, copy.at, state, roundKey, 0)
       [] fn = "shiftRows" ->
            shiftedRows(copy.heap, copy.at, state,
                        << 1, 2, 3, 0 >>, << 3, 0, 1, 2 >>)
       [] fn = "inverseShiftRows" ->
            shiftedRows(copy.heap, copy.at, state,
                        << 3, 0, 1, 2 >>, << 1, 2, 3, 0 >>)
       [] fn \in {"mixColumns", "inverseMixColumns"} ->
            writeColumns(fn, copy.heap, copy.at, state, 0),
   at |-> copy.at]

\* substituteBytes(state) .. addRoundKey(state, roundKey) on the heap
transformInHeap(fn, heap, state, roundKey) ==
  transformedCopy(fn, copyStateMatrixInHeap(heap, state), state, roundKey)

\* ------------------------------------------------------------------------
\* keyExpansion.js
\* ------------------------------------------------------------------------

rotateWord(word) ==
  << word[2], word[3], word[4], word[1] >>

substituteWord(word) ==
  MapRow(SBoxOf, word)

xorWords(word1, word2) ==
  << Xor(word1[1], word2[1]), Xor(word1[2], word2[2]),
     Xor(word1[3], word2[3]), Xor(word1[4], word2[4]) >>

\* the first KEY_SIZE_WORDS words: words[i] = key[4i .. 4i + 3]
RECURSIVE keyWords(_, _)
keyWords(key, i) ==
  IF i >= KEY_SIZE_WORDS THEN << >>
  ELSE << << At(key, 4 * i), At(key, 4 * i + 1),
             At(key, 4 * i + 2), At(key, 4 * i + 3) >> >>
       \o keyWords(key, i + 1)

\* the loop body without the SubWord of the words with i % 8 = 4, as in the
\* schedule of a 128-bit key
scheduleTempWithoutSubWord(words, i) ==
  LET temp == words[i]
  IN  IF i % KEY_SIZE_WORDS = 0
      THEN LET afterSubstitute == substituteWord(rotateWord(temp))
               rconValue == ROUND_CONSTANTS[(i \div KEY_SIZE_WORDS) + 1]
           IN  << Xor(afterSubstitute[1], rconValue), afterSubstitute[2],
                  afterSubstitute[3], afterSubstitute[4] >>
      ELSE temp

\* the loop body with the round constants counted from index 0:
\* ROUND_CONSTANTS[i / KEY_SIZE_WORDS - 1]
scheduleTempRconFromZero(words, i) ==
  LET temp == words[i]
  IN  IF i % KEY_SIZE_WORDS = 0
      THEN LET afterSubstitute == substituteWord(rotateWord(temp))
               rconValue == ROUND_CONSTANTS[i \div KEY_SIZE_WORDS]
           IN  << Xor(afterSubstitute[1], rconValue), afterSubstitute[2],
                  afterSubstitute[3], afterSubstitute[4] >>
      ELSE IF i % KEY_SIZE_WORDS = 4
      THEN substituteWord(temp)
      ELSE temp

\* temp of the loop body for word i, before the XOR with words[i - 8]
scheduleTemp(words, i) ==
  LET temp == words[i]   \* words[i - 1] of the source
  IN  IF i % KEY_SIZE_WORDS = 0
      THEN LET afterSubstitute == substituteWord(rotateWord(temp))
               rconValue == ROUND_CONSTANTS[(i \div KEY_SIZE_WORDS) + 1]
           IN  << Xor(afterSubstitute[1], rconValue), afterSubstitute[2],
                  afterSubstitute[3], afterSubstitute[4] >>
      ELSE IF i % KEY_SIZE_WORDS = 4
      THEN substituteWord(temp)
      ELSE temp

scheduleOperation(i) ==
  IF i % KEY_SIZE_WORDS = 0 THEN "RotWord -> SubWord -> Rcon"
  ELSE IF i % KEY_SIZE_WORDS = 4 THEN "SubWord only"
  ELSE "XOR only"

\* stepDetails of the pass for word i: before is words[i - 1], word the new
\* words[i]
scheduleDetails(i, before, word) ==
  IF i % KEY_SIZE_WORDS = 0
  THEN [wordIndex |-> i, operation |-> scheduleOperation(i),
        beforeRotate |-> before,
        afterRotate |-> rotateWord(before),
        afterSubstitute |-> substituteWord(rotateWord(before)),
        rconValue |-> ROUND_CONSTANTS[(i \div KEY_SIZE_WORDS) + 1],
        result |-> word]
  ELSE IF i % KEY_SIZE_WORDS = 4
  THEN [wordIndex |-> i, operation |-> scheduleOperation(i),
        before |-> before, result |-> word]
  ELSE [wordIndex |-> i, operation |-> scheduleOperation(i), result |-> word]

\* one pass of the loop body for word i: words[i] and its stepDetails are
\* pushed; acc is the words and the expansionDetails so far
scheduleStep(acc, i) ==
  LET word == xorWords(scheduleTemp(acc.words, i),
                       acc.words[i - KEY_SIZE_WORDS + 1])
  IN  [words |-> Append(acc.words, word),
       expansionDetails |->
         Append(acc.expansionDetails,
                scheduleDetails(i, acc.words[i], word))]

RECURSIVE generateWords(_, _, _)
\* the loop "for (i = KEY_SIZE_WORDS; i < totalWords; i++)", four passes
\* (the words of one round key) at a time
generateWords(acc, i, totalWords) ==
  Strict(acc,
         IF i >= totalWords THEN acc
         ELSE generateWords(
                scheduleStep(scheduleStep(scheduleStep(
                  scheduleStep(acc, i), i + 1), i + 2), i + 3),
                i + 4, totalWords))

\* the words of the schedule and the details of their generation
expandSchedule(key) ==
  generateWords([words |-> keyWords(key, 0), expansionDetails |-> << >>],
                KEY_SIZE_WORDS, 4 * (NUMBER_OF_ROUNDS + 1))

\* all 60 words of the schedule
expandWords(key) ==
  expandSchedule(key).words

\* the round key filled row-wise: roundKey[wordIndex] = words[round * 4 +
\* wordIndex]
roundKeyOfRows(words, round) ==
  << words[round * 4 + 1], words[round * 4 + 2],
     words[round * 4 + 3], words[round * 4 + 4] >>

\* roundKey[byteIndex][wordIndex] = words[round * 4 + wordIndex][byteIndex]
roundKeyOf(words, round) ==
  FromColumns(words[round * 4 + 1], words[round * 4 + 2],
              words[round * 4 + 3], words[round * 4 + 4])

RECURSIVE roundKeysFrom(_, _)
\* the loop "for (round = 0; round <= NUMBER_OF_ROUNDS; round++)"
roundKeysFrom(words, round) ==
  IF round > NUMBER_OF_ROUNDS THEN << >>
  ELSE << roundKeyOf(words, round) >> \o roundKeysFrom(words, round + 1)

\* "return { roundKeys, expansionDetails }" for the generated schedule
scheduleReturn(schedule) ==
  [roundKeys |-> roundKeysFrom(schedule.words, 0),
   expansionDetails |-> schedule.expansionDetails]

expandKey(key) ==
  scheduleReturn(expandSchedule(key))

\* ------------------------------------------------------------------------
\* utils.js: hexadecimal text.  A string is a sequence of one-character
\* strings.
\* ------------------------------------------------------------------------

HexDigits ==
  << "0", "1", "2", "3", "4", "5", "6", "7",
     "8", "9", "a", "b", "c", "d", "e", "f" >>

\* byte.toString(16) alone, which gives one digit below 16
byteToHexUnpadded(byte) ==
  IF byte < 16 THEN << HexDigits[byte + 1] >>
  ELSE << HexDigits[(byte \div 16) + 1], HexDigits[(byte % 16) + 1] >>

\* byte.toString(16).padStart(2, '0')
byteToHex(byte) ==
  IF byte < 16 THEN << "0", HexDigits[byte + 1] >>
  ELSE << HexDigits[(byte \div 16) + 1], HexDigits[(byte % 16) + 1] >>

\* undefined.toString raises a TypeError
hasUndefined(state) ==
  \E row \in 1..4 : \E col \in 1..4 : state[row][col] = undefined

formatRow(row) ==
  byteToHex(row[1]) \o << " " >> \o byteToHex(row[2]) \o << " " >> \o
  byteToHex(row[3]) \o << " " >> \o byteToHex(row[4])

\* rows joined by "\n", cells by " "; the text is <<"TypeError">> when the
\* call raises
formatStateMatrix(state) ==
  IF hasUndefined(state) THEN << "TypeError" >>
  ELSE formatRow(state[1]) \o << "\n" >> \o formatRow(state[2]) \o << "\n" >> \o
       formatRow(state[3]) \o << "\n" >> \o formatRow(state[4])

\* ------------------------------------------------------------------------
\* encryption.js / decryption.js: one block
\* ------------------------------------------------------------------------

\* an entry of roundDetails
Detail(round, step, state) ==
  [round |-> round, step |-> step, state |-> formatStateMatrix(state),
   stateMatrix |-> copyStateMatrix(state)]

\* an entry of roundDetails that also shows the round key
DetailWithKey(round, step, state, roundKey) ==
  [round |-> round, step |-> step, state |-> formatStateMatrix(state),
   stateMatrix |-> copyStateMatrix(state),
   roundKey |-> formatStateMatrix(roundKey)]

\* some formatStateMatrix call behind these details raised
detailsThrew(roundDetails) ==
  \E i \in 1..Len(roundDetails) :
     \/ roundDetails[i].state = << "TypeError" >>
     \/ /\ "roundKey" \in DOMAIN roundDetails[i]
        /\ roundDetails[i].roundKey = << "TypeError" >>

TypeError ==
  [threw |-> TRUE, error |-> "TypeError"]

\* the initial round of encryptBlock: the state of the block, AddRoundKey
\* with round key 0
encryptInitialRound(block, roundKeys, trackRounds) ==
  LET initial == bytesToStateMatrix(block)
      afterKey == addRoundKey(initial, roundKeys[1])
  IN  [state |-> afterKey,
       roundDetails |->
         IF trackRounds
         THEN << Detail(0, "Initial State", initial),
                 DetailWithKey(0, "After AddRoundKey", afterKey,
                               roundKeys[1]) >>
         ELSE << >>]

\* the body of the loop of encryptBlock; acc is the state and the details
\* so far
encryptRound(acc, round, roundKeys, trackRounds) ==
  LET afterSub == substituteBytes(acc.state)
      afterShift == shiftRows(afterSub)
      afterMix == mixColumns(afterShift)
      afterKey == addRoundKey(afterMix, roundKeys[round + 1])
  IN  [state |-> afterKey,
       roundDetails |->
         IF trackRounds
         THEN acc.roundDetails \o
              << Detail(round, "Start of Round", acc.state),
                 Detail(round, "After SubBytes", afterSub),
                 Detail(round, "After ShiftRows", afterShift),
                 Detail(round, "After MixColumns", afterMix),
                 DetailWithKey(round, "After AddRoundKey", afterKey,
                               roundKeys[round + 1]) >>
         ELSE acc.roundDetails]

RECURSIVE encryptMainRounds(_, _, _, _)
\* the loop "for (round = 1; round < NUMBER_OF_ROUNDS; round++)" of
\* encryptBlock
encryptMainRounds(acc, round, roundKeys, trackRounds) ==
  Strict(acc,
         IF round >= NUMBER_OF_ROUNDS THEN acc
         ELSE encryptMainRounds(encryptRound(acc, round, roundKeys, trackRounds),
                                round + 1, roundKeys, trackRounds))

\* "return { encryptedBlock, roundDetails }", unless a formatStateMatrix
\* behind the details raised
encryptBlockReturn(state, roundDetails) ==
  IF detailsThrew(roundDetails) THEN TypeError
  ELSE [threw |-> FALSE,
        encryptedBlock |-> stateMatrixToBytes(state),
        roundDetails |-> roundDetails]

\* the final round of encryptBlock (no MixColumns) and its return
encryptFinalRound(acc, roundKeys, trackRounds) ==
  LET finalRound == NUMBER_OF_ROUNDS
      afterSub == substituteBytes(acc.state)
      afterShift == shiftRows(afterSub)
      afterKey == addRoundKey(afterShift, roundKeys[finalRound + 1])
  IN  encryptBlockReturn(
        afterKey,
        IF trackRounds
        THEN acc.roundDetails \o
             << Detail(finalRound, "Start of Final Round", acc.state),
                Detail(finalRound, "After SubBytes", afterSub),
                Detail(finalRound, "After ShiftRows", afterShift),
                DetailWithKey(finalRound, "After AddRoundKey (Final)",
                              afterKey, roundKeys[finalRound + 1]) >>
        ELSE << >>)

encryptBlock(block, roundKeys, trackRounds) ==
  encryptFinalRound(
    encryptMainRounds(encryptInitialRound(block, roundKeys, trackRounds),
                      1, roundKeys, trackRounds),
    roundKeys, trackRounds)

\* the initial round of decryptBlock: the state of the block, AddRoundKey
\* with the last round key
decryptInitialRound(block, roundKeys, trackRounds) ==
  LET initial == bytesToStateMatrix(block)
      afterKey == addRoundKey(initial, roundKeys[NUMBER_OF_ROUNDS + 1])
  IN  [state |-> afterKey,
       roundDetails |->
         IF trackRounds
         THEN << Detail(NUMBER_OF_ROUNDS, "Initial State (Cipher)", initial),
                 DetailWithKey(NUMBER_OF_ROUNDS, "After AddRoundKey", afterKey,
                               roundKeys[NUMBER_OF_ROUNDS + 1]) >>
         ELSE << >>]

\* the body of the loop of decryptBlock
decryptRound(acc, round, roundKeys, trackRounds) ==
  LET afterShift == inverseShiftRows(acc.state)
      afterSub == inverseSubstituteBytes(afterShift)
      afterKey == addRoundKey(afterSub, roundKeys[round + 1])
      afterMix == inverseMixColumns(afterKey)
  IN  [state |-> afterMix,
       roundDetails |->
         IF trackRounds
         THEN acc.roundDetails \o
              << Detail(round, "Start of Round", acc.state),
                 Detail(round, "After InverseShiftRows", afterShift),
                 Detail(round, "After InverseSubBytes", afterSub),
                 DetailWithKey(round, "After AddRoundKey", afterKey,
                               roundKeys[round + 1]),
                 Detail(round, "After InverseMixColumns", afterMix) >>
         ELSE acc.roundDetails]

RECURSIVE decryptMainRounds(_, _, _, _)
\* the loop "for (round = NUMBER_OF_ROUNDS - 1; round >= 1; round--)" of
\* decryptBlock
decryptMainRounds(acc, round, roundKeys, trackRounds) ==
  Strict(acc,
         IF round < 1 THEN acc
         ELSE decryptMainRounds(decryptRound(acc, round, roundKeys, trackRounds),
                                round - 1, roundKeys, trackRounds))

\* "return { decryptedBlock, roundDetails }", unless a formatStateMatrix
\* behind the details raised
decryptBlockReturn(state, roundDetails) ==
  IF detailsThrew(roundDetails) THEN TypeError
  ELSE [threw |-> FALSE,
        decryptedBlock |-> stateMatrixToBytes(state),
        roundDetails |-> roundDetails]

\* the final round of decryptBlock (no InverseMixColumns) and its return
decryptFinalRound(acc, roundKeys, trackRounds) ==
  LET finalRound == 0
      afterShift == inverseShiftRows(acc.state)
      afterSub == inverseSubstituteBytes(afterShift)
      afterKey == addRoundKey(afterSub, roundKeys[finalRound + 1])
  IN  decryptBlockReturn(
        afterKey,
        IF trackRounds
        THEN acc.roundDetails \o
             << Detail(finalRound, "Start of Final Round", acc.state),
                Detail(finalRound, "After InverseShiftRows", afterShift),
                Detail(finalRound, "After InverseSubBytes", afterSub),
                DetailWithKey(finalRound, "After AddRoundKey (Final)",
                              afterKey, roundKeys[finalRound + 1]) >>
        ELSE << >>)

decryptBlock(block, roundKeys, trackRounds) ==
  decryptFinalRound(
    decryptMainRounds(decryptInitialRound(block, roundKeys, trackRounds),
                      NUMBER_OF_ROUNDS - 1, roundKeys, trackRounds),
    roundKeys, trackRounds)

\* ------------------------------------------------------------------------
\* encryptBlock / decryptBlock, one statement at a time.  A frame is the
\* function's local state: section is the part of the body that is running
\* ("initial", "main" for the loop, "final", then "returned" or "threw"),
\* next the transformation about to be applied, round the loop variable
\* (finalRound in the final part), steps the transformations applied so
\* far, each with its round, AddRoundKey with the index of its round key.
\* ------------------------------------------------------------------------

\* roundDetails.push(...) under "if (trackRounds)"; formatStateMatrix may
\* raise
pushDetails(f, details) ==
  IF f.section \in {"threw", "returned"} \/ ~f.trackRounds THEN f
  ELSE IF detailsThrew(details)
       THEN [fn |-> f.fn, arg |-> f.arg, trackRounds |-> f.trackRounds,
             section |-> "threw", steps |-> f.steps, result |-> TypeError]
       ELSE [f EXCEPT !.roundDetails = @ \o details]

\* "let state = bytesToStateMatrix(block); const roundDetails = [];" and
\* the first push
beginBlock(fn, block, trackRounds, firstRound, firstStep) ==
  pushDetails([fn |-> fn, arg |-> block, trackRounds |-> trackRounds,
               section |-> "initial", next |-> "AddRoundKey",
               round |-> firstRound, state |-> bytesToStateMatrix(block),
               roundDetails |-> << >>, steps |-> << >>],
              << Detail(firstRound, firstStep, bytesToStateMatrix(block)) >>)

\* "state = transformation(state)", the push that follows it, and the
\* statement to go on with
transformed(f, op, state, step, next) ==
  pushDetails([f EXCEPT !.state = state, !.next = next,
                        !.steps = @ \o << [op |-> op, round |-> f.round] >>],
              << Detail(f.round, step, state) >>)

\* "state = addRoundKey(state, roundKeys[round])", the push that follows
\* it, and the statement to go on with
keyAdded(f, roundKeys, state, step, next) ==
  pushDetails([f EXCEPT !.state = state, !.next = next,
                        !.steps = @ \o << [op |-> "AddRoundKey",
                                           round |-> f.round] >>],
              << DetailWithKey(f.round, step, state,
                               roundKeys[f.round + 1]) >>)

\* the part of the body that starts at the top of a round
entered(f, section, round, step) ==
  pushDetails(IF f.section \in {"threw", "returned"} THEN f
              ELSE [f EXCEPT !.section = section, !.round = round],
              << Detail(round, step, f.state) >>)

\* "return { encryptedBlock, roundDetails }" / "return { decryptedBlock,
\* roundDetails }"
blockReturned(f, name) ==
  [fn |-> f.fn, arg |-> f.arg, trackRounds |-> f.trackRounds,
   section |-> "returned", steps |-> f.steps,
   result |-> (name :> stateMatrixToBytes(f.state)) @@
              [threw |-> FALSE, roundDetails |-> f.roundDetails]]

\* the loop test of encryptBlock with the loop variable at round: the loop
\* body starts, or the final round does
encryptLoop(f, round) ==
  IF round < NUMBER_OF_ROUNDS
  THEN entered(f, "main", round, "Start of Round")
  ELSE entered(f, "final", NUMBER_OF_ROUNDS, "Start of Final Round")

\* the statement after ShiftRows, with MixColumns in the final round too
encryptAfterShiftRowsMixAlways(f) ==
  "MixColumns"

\* the statement after ShiftRows in encryptBlock
encryptAfterShiftRows(f) ==
  IF f.section = "main" THEN "MixColumns" ELSE "AddRoundKey"

\* the next statement of encryptBlock
encryptBlockStep(f, roundKeys) ==
  CASE f.next = "SubBytes" ->
         transformed(f, "SubBytes", substituteBytes(f.state),
                     "After SubBytes", "ShiftRows")
    [] f.next = "ShiftRows" ->
         transformed(f, "ShiftRows", shiftRows(f.state),
                     "After ShiftRows", encryptAfterShiftRows(f))
    [] f.next = "MixColumns" ->
         transformed(f, "MixColumns", mixColumns(f.state),
                     "After MixColumns", "AddRoundKey")
    [] f.next = "AddRoundKey" /\ f.section = "initial" ->
         encryptLoop(keyAdded(f, roundKeys,
                              addRoundKey(f.state, roundKeys[f.round + 1]),
                              "After AddRoundKey", "SubBytes"),
                     1)
    [] f.next = "AddRoundKey" /\ f.section = "main" ->
         encryptLoop(keyAdded(f, roundKeys,
                              addRoundKey(f.state, roundKeys[f.round + 1]),
                              "After AddRoundKey", "SubBytes"),
                     f.round + 1)
    [] f.next = "AddRoundKey" /\ f.section = "final" ->
         keyAdded(f, roundKeys, addRoundKey(f.state, roundKeys[f.round + 1]),
                  "After AddRoundKey (Final)", "return")
    [] f.next = "return" -> blockReturned(f, "encryptedBlock")

\* the loop test of decryptBlock with the loop variable at round
decryptLoop(f, round) ==
  IF round >= 1
  THEN entered(f, "main", round, "Start of Round")
  ELSE entered(f, "final", 0, "Start of Final Round")

\* the statement after AddRoundKey, with InverseMixColumns in the final
\* round too
decryptAfterAddRoundKeyMixAlways(f) ==
  IF f.section = "initial" THEN "InverseShiftRows" ELSE "InverseMixColumns"

\* the statement after AddRoundKey in decryptBlock
decryptAfterAddRoundKey(f) ==
  CASE f.section = "initial" -> "InverseShiftRows"
    [] f.section = "main" -> "InverseMixColumns"
    [] f.section = "final" -> "return"

\* the next statement of decryptBlock
decryptBlockStep(f, roundKeys) ==
  CASE f.next = "InverseShiftRows" ->
         transformed(f, "InverseShiftRows", inverseShiftRows(f.state),
                     "After InverseShiftRows", "InverseSubBytes")
    [] f.next = "InverseSubBytes" ->
         transformed(f, "InverseSubBytes", inverseSubstituteBytes(f.state),
                     "After InverseSubBytes", "AddRoundKey")
    [] f.next = "AddRoundKey" /\ f.section = "initial" ->
         decryptLoop(keyAdded(f, roundKeys,
                              addRoundKey(f.state, roundKeys[f.round + 1]),
                              "After AddRoundKey", decryptAfterAddRoundKey(f)),
                     NUMBER_OF_ROUNDS - 1)
    [] f.next = "AddRoundKey" /\ f.section = "main" ->
         keyAdded(f, roundKeys, addRoundKey(f.state, roundKeys[f.round + 1]),
                  "After AddRoundKey", decryptAfterAddRoundKey(f))
    [] f.next = "AddRoundKey" /\ f.section = "final" ->
         keyAdded(f, roundKeys, addRoundKey(f.state, roundKeys[f.round + 1]),
                  "After AddRoundKey (Final)", decryptAfterAddRoundKey(f))
    [] f.next = "InverseMixColumns" ->
         decryptLoop(transformed(f, "InverseMixColumns",
                                 inverseMixColumns(f.state),
                                 "After InverseMixColumns", "InverseShiftRows"),
                     f.round - 1)
    [] f.next = "return" -> blockReturned(f, "decryptedBlock")

\* ------------------------------------------------------------------------
\* utils.js: hex conversion and padding
\* ------------------------------------------------------------------------

\* the JavaScript value null
null ==
  [null |-> TRUE]

RECURSIVE bytesToHex(_)
\* bytes.map(byte => byte.toString(16).padStart(2, '0')).join('')
bytesToHex(bytes) ==
  IF bytes = << >> THEN << >>
  ELSE byteToHex(Head(bytes)) \o bytesToHex(Tail(bytes))

\* the value of one hexadecimal digit, either case; -1 for any other character
hexValue(char) ==
  CASE char = "0" -> 0  [] char = "1" -> 1  [] char = "2" -> 2
    [] char = "3" -> 3  [] char = "4" -> 4  [] char = "5" -> 5
    [] char = "6" -> 6  [] char = "7" -> 7  [] char = "8" -> 8
    [] char = "9" -> 9
    [] char = "a" \/ char = "A" -> 10
    [] char = "b" \/ char = "B" -> 11
    [] char = "c" \/ char = "C" -> 12
    [] char = "d" \/ char = "D" -> 13
    [] char = "e" \/ char = "E" -> 14
    [] char = "f" \/ char = "F" -> 15
    [] OTHER -> 0 - 1

isHexChar(char) ==
  hexValue(char) >= 0

\* hexString.replace(/[^0-9a-fA-F]/g, '')
cleanHexOf(hexString) ==
  SelectSeq(hexString, isHexChar)

\* parseInt(text, 16) for a text of one or two hexadecimal digits
parseInt16(text) ==
  IF Len(text) = 1 THEN hexValue(text[1])
  ELSE 16 * hexValue(text[1]) + hexValue(text[2])

RECURSIVE hexPairs(_, _)
\* the loop "for (i = 0; i < cleanHex.length; i += 2)"; substr(i, 2) is
\* shorter than 2 at the end of an odd-length text
hexPairs(cleanHex, i) ==
  IF i >= Len(cleanHex) THEN << >>
  ELSE << parseInt16(Slice(cleanHex, i, i + 2)) >> \o hexPairs(cleanHex, i + 2)

hexToBytes(hexString) ==
  hexPairs(cleanHexOf(hexString), 0)

RECURSIVE repeatByte(_, _)
\* count pushes of the same byte
repeatByte(byte, count) ==
  IF count <= 0 THEN << >> ELSE << byte >> \o repeatByte(byte, count - 1)

\* a padding length that is 0 for block-aligned data
paddingLengthToBoundary(data) ==
  (BLOCK_SIZE - (Len(data) % BLOCK_SIZE)) % BLOCK_SIZE

paddingLengthOf(data) ==
  BLOCK_SIZE - (Len(data) % BLOCK_SIZE)

padData(data) ==
  data \o repeatByte(paddingLengthOf(data), paddingLengthOf(data))

InvalidPadding ==
  [threw |-> TRUE, error |-> "Invalid padding"]

\* unpadData that also refuses a padding length of BLOCK_SIZE
unpadDataBelowBlockSize(data) ==
  IF Len(data) = 0 THEN [threw |-> FALSE, value |-> data]
  ELSE LET paddingLength == At(data, Len(data) - 1)
       IN  IF paddingLength >= BLOCK_SIZE \/ paddingLength = 0
           THEN InvalidPadding
           ELSE IF \E i \in 1..paddingLength :
                      At(data, Len(data) - i) # paddingLength
           THEN InvalidPadding
           ELSE [threw |-> FALSE,
                 value |-> Slice(data, 0, Len(data) - paddingLength)]

\* unpadData without the loop that verifies the padding bytes
unpadDataLastByteOnly(data) ==
  IF Len(data) = 0 THEN [threw |-> FALSE, value |-> data]
  ELSE LET paddingLength == At(data, Len(data) - 1)
       IN  IF paddingLength > BLOCK_SIZE \/ paddingLength = 0
           THEN InvalidPadding
           ELSE [threw |-> FALSE,
                 value |-> Slice(data, 0, Len(data) - paddingLength)]

unpadData(data) ==
  IF Len(data) = 0 THEN [threw |-> FALSE, value |-> data]
  ELSE LET paddingLength == At(data, Len(data) - 1)
       IN  IF paddingLength > BLOCK_SIZE \/ paddingLength = 0
           THEN InvalidPadding
           ELSE IF \E i \in 1..paddingLength :
                      At(data, Len(data) - i) # paddingLength
           THEN InvalidPadding
           ELSE [threw |-> FALSE,
                 value |-> Slice(data, 0, Len(data) - paddingLength)]

\* ------------------------------------------------------------------------
\* encryption.js / decryption.js: text of any length
\* ------------------------------------------------------------------------

RECURSIVE blockStatesChained(_, _)
\* block states with each block XORed with the block before it, as a chained
\* mode would do
blockStatesChained(data, i) ==
  IF 16 * i >= Len(data) THEN << >>
  ELSE << addRoundKey(
            bytesToStateMatrix(Slice(data, i * 16, (i + 1) * 16)),
            bytesToStateMatrix(
              IF i = 0 THEN << 0, 0, 0, 0, 0, 0, 0, 0, 0, 0, 0, 0, 0, 0, 0, 0 >>
              ELSE Slice(data, (i - 1) * 16, i * 16))) >>
       \o blockStatesChained(data, i + 1)

RECURSIVE blockStatesOf(_, _)
\* "for (i = 0; i < numBlocks; i++) blockStates.push(bytesToStateMatrix(
\* data.slice(i * 16, (i + 1) * 16)))" with numBlocks = data.length / 16, a
\* fraction when the length is no multiple of 16
blockStatesOf(data, i) ==
  IF 16 * i >= Len(data) THEN << >>
  ELSE << bytesToStateMatrix(Slice(data, i * 16, (i + 1) * 16)) >>
       \o blockStatesOf(data, i + 1)

\* the rounds with InverseMixColumns before AddRoundKey in decryption
roundStepMixFirst(kind, state, roundKey) ==
  CASE kind = "addKey" -> addRoundKey(state, roundKey)
    [] kind = "encryptMain" ->
         addRoundKey(mixColumns(shiftRows(substituteBytes(state))), roundKey)
    [] kind = "encryptFinal" ->
         addRoundKey(shiftRows(substituteBytes(state)), roundKey)
    [] kind = "decryptMain" ->
         addRoundKey(
           inverseMixColumns(inverseSubstituteBytes(inverseShiftRows(state))),
           roundKey)
    [] kind = "decryptFinal" ->
         addRoundKey(inverseSubstituteBytes(inverseShiftRows(state)), roundKey)

\* what one round of the round-by-round path does to one block state
roundStep(kind, state, roundKey) ==
  CASE kind = "addKey" -> addRoundKey(state, roundKey)
    [] kind = "encryptMain" ->
         addRoundKey(mixColumns(shiftRows(substituteBytes(state))), roundKey)
    [] kind = "encryptFinal" ->
         addRoundKey(shiftRows(substituteBytes(state)), roundKey)
    [] kind = "decryptMain" ->
         inverseMixColumns(
           addRoundKey(inverseSubstituteBytes(inverseShiftRows(state)),
                       roundKey))
    [] kind = "decryptFinal" ->
         addRoundKey(inverseSubstituteBytes(inverseShiftRows(state)), roundKey)

RECURSIVE forEachBlock(_, _, _)
\* "for (i = 0; i < numBlocks; i++) blockStates[i] = ..."
forEachBlock(kind, blockStates, roundKey) ==
  IF blockStates = << >> THEN << >>
  ELSE << roundStep(kind, Head(blockStates), roundKey) >>
       \o forEachBlock(kind, Tail(blockStates), roundKey)

RECURSIVE collect(_)
\* blockStates.forEach(state => full.push(...stateMatrixToBytes(state)))
collect(blockStates) ==
  IF blockStates = << >> THEN << >>
  ELSE stateMatrixToBytes(Head(blockStates)) \o collect(Tail(blockStates))

\* the block states after a round and completeCipherPerRound with their bytes
trackedStates(perRound, round, blockStates) ==
  [blockStates |-> blockStates,
   perRound |-> perRound @@ (round :> collect(blockStates))]

\* one pass of the round-by-round path: every block state takes the step
\* kind with the key of the round, and the bytes of all block states are
\* stored as completeCipherPerRound[round]; acc is the block states and
\* completeCipherPerRound so far
trackedRound(acc, kind, round, roundKeys) ==
  trackedStates(acc.perRound, round,
                forEachBlock(kind, acc.blockStates, roundKeys[round + 1]))

\* the step of the blocks in a round of encryptText: AddRoundKey alone in
\* round 0, no MixColumns in the final round
encryptKind(round) ==
  IF round = 0 THEN "addKey"
  ELSE IF round = NUMBER_OF_ROUNDS THEN "encryptFinal"
  ELSE "encryptMain"

\* the step of the blocks in a round of decryptText: AddRoundKey alone in
\* round NUMBER_OF_ROUNDS, no InverseMixColumns in round 0
decryptKind(round) ==
  IF round = NUMBER_OF_ROUNDS THEN "addKey"
  ELSE IF round = 0 THEN "decryptFinal"
  ELSE "decryptMain"

RECURSIVE encryptAllRounds(_, _, _)
\* rounds 0, 1..13 and 14 of the round-by-round path of encryptText
encryptAllRounds(acc, round, roundKeys) ==
  Strict(acc,
         IF round > NUMBER_OF_ROUNDS THEN acc
         ELSE encryptAllRounds(
                trackedRound(acc, encryptKind(round), round, roundKeys),
                round + 1, roundKeys))

RECURSIVE decryptAllRounds(_, _, _)
\* rounds 14, 13..1 and 0 of the round-by-round path of decryptText
decryptAllRounds(acc, round, roundKeys) ==
  Strict(acc,
         IF round < 0 THEN acc
         ELSE decryptAllRounds(
                trackedRound(acc, decryptKind(round), round, roundKeys),
                round - 1, roundKeys))

RECURSIVE encryptBlocks(_, _, _)
\* "for (i = 0; i < paddedData.length; i += 16) cipherBytes.push(
\* ...encryptBlock(paddedData.slice(i, i + 16), roundKeys, false))"
encryptBlocks(data, i, roundKeys) ==
  IF i >= Len(data) THEN << >>
  ELSE encryptBlock(Slice(data, i, i + 16), roundKeys, FALSE).encryptedBlock
       \o encryptBlocks(data, i + 16, roundKeys)

RECURSIVE decryptBlocks(_, _, _)
\* the same loop of decryptText
decryptBlocks(data, i, roundKeys) ==
  IF i >= Len(data) THEN << >>
  ELSE decryptBlock(Slice(data, i, i + 16), roundKeys, FALSE).decryptedBlock
       \o decryptBlocks(data, i + 16, roundKeys)

RECURSIVE formatAll(_)
\* roundKeys.map(rk => formatStateMatrix(rk))
formatAll(roundKeys) ==
  IF roundKeys = << >> THEN << >>
  ELSE << formatStateMatrix(Head(roundKeys)) >> \o formatAll(Tail(roundKeys))

anyUndefined(roundKeys) ==
  \E i \in 1..Len(roundKeys) : hasUndefined(roundKeys[i])

\* the block states and completeCipherPerRound of the round-by-round path
\* of encryptText
encryptTracked(paddedData, roundKeys) ==
  encryptAllRounds([blockStates |-> blockStatesOf(paddedData, 0),
                    perRound |-> << >>],
                   0, roundKeys)

\* the block states and completeCipherPerRound of the round-by-round path
\* of decryptText
decryptTracked(cipherBytes, roundKeys) ==
  decryptAllRounds([blockStates |-> blockStatesOf(cipherBytes, 0),
                    perRound |-> << >>],
                   NUMBER_OF_ROUNDS, roundKeys)

\* what "decryptBlock(firstBlock, roundKeys, true)" stands for when
\* trackRounds is false: allRoundDetails stays []
NoDetails ==
  [threw |-> FALSE, roundDetails |-> << >>]

\* the return statement of encryptText; first is what encryptBlock returned
\* for the first block
encryptTextReturn(cipherBytes, first, completeCipherPerRound, expanded) ==
  IF first.threw THEN TypeError
  ELSE IF anyUndefined(expanded.roundKeys) THEN TypeError
  ELSE [threw |-> FALSE,
        cipherBytes |-> cipherBytes,
        roundDetails |-> first.roundDetails,
        completeCipherPerRound |-> completeCipherPerRound,
        keyExpansion |->
          [roundKeys |-> formatAll(expanded.roundKeys),
           expansionDetails |-> expanded.expansionDetails]]

\* encryptText after the round-by-round path: the cipher bytes are those
\* of the final round
encryptTrackedReturn(tracked, paddedData, expanded) ==
  encryptTextReturn(collect(tracked.blockStates),
                    encryptBlock(Slice(paddedData, 0, 16), expanded.roundKeys,
                                 TRUE),
                    tracked.perRound, expanded)

\* encryptText after padding and key expansion
encryptPadded(paddedData, expanded, trackRounds) ==
  Strict(<< paddedData, expanded >>,
         IF trackRounds
         THEN encryptTrackedReturn(
                encryptTracked(paddedData, expanded.roundKeys),
                paddedData, expanded)
         ELSE encryptTextReturn(
                encryptBlocks(paddedData, 0, expanded.roundKeys),
                NoDetails, null, expanded))

encryptText(plainBytes, key, trackRounds) ==
  encryptPadded(padData(plainBytes), expandKey(key), trackRounds)

\* the return statement of decryptText; unpadded is what unpadData did
decryptTextReturn(unpadded, first, completeCipherPerRound, expanded) ==
  IF unpadded.threw THEN InvalidPadding
  ELSE IF first.threw THEN TypeError
  ELSE IF anyUndefined(expanded.roundKeys) THEN TypeError
  ELSE [threw |-> FALSE,
        plainBytes |-> unpadded.value,
        roundDetails |-> first.roundDetails,
        completeCipherPerRound |-> completeCipherPerRound,
        keyExpansion |->
          [roundKeys |-> formatAll(expanded.roundKeys),
           expansionDetails |-> expanded.expansionDetails]]

\* the round-by-round path handing on its bytes without unpadData
decryptTrackedUnchecked(tracked, cipherBytes, expanded) ==
  decryptTextReturn([threw |-> FALSE, value |-> collect(tracked.blockStates)],
                    decryptBlock(Slice(cipherBytes, 0, 16), expanded.roundKeys,
                                 TRUE),
                    tracked.perRound, expanded)

\* decryptText after the round-by-round path: "plainBytes =
\* unpadData(fullPlain)" with the bytes of the final round
decryptTrackedReturn(tracked, cipherBytes, expanded) ==
  decryptTextReturn(unpadData(collect(tracked.blockStates)),
                    decryptBlock(Slice(cipherBytes, 0, 16), expanded.roundKeys,
                                 TRUE),
                    tracked.perRound, expanded)

\* decryptText after key expansion
decryptExpanded(cipherBytes, expanded, trackRounds) ==
  Strict(expanded,
         IF trackRounds
         THEN decryptTrackedReturn(
                decryptTracked(cipherBytes, expanded.roundKeys),
                cipherBytes, expanded)
         ELSE decryptTextReturn(
                unpadData(decryptBlocks(cipherBytes, 0, expanded.roundKeys)),
                NoDetails, null, expanded))

decryptText(cipherBytes, key, trackRounds) ==
  decryptExpanded(cipherBytes, expandKey(key), trackRounds)

\* ------------------------------------------------------------------------
\* The callers' inputs
\* ------------------------------------------------------------------------

\* the AES-256 key of the known-answer vector as the specification prints
\* it: 63 hexadecimal digits
VectorKeyHex ==
  << "6", "0", "3", "d", "e", "b", "1", "0", "1", "5", "c", "a", "7", "1", "b", "e",
     "2", "b", "7", "3", "a", "e", "f", "0", "8", "5", "7", "d", "7", "7", "8", "1",
     "1", "f", "3", "5", "2", "c", "0", "7", "3", "b", "6", "1", "0", "8", "d", "7",
     "2", "d", "9", "8", "1", "0", "a", "3", "0", "9", "1", "4", "d", "f", "f" >>

\* the AES-256 key of the FIPS-197 / SP 800-38A vector: 64 hexadecimal digits
Fips197KeyHex ==
  << "6", "0", "3", "d", "e", "b", "1", "0", "1", "5", "c", "a", "7", "1", "b", "e",
     "2", "b", "7", "3", "a", "e", "f", "0", "8", "5", "7", "d", "7", "7", "8", "1",
     "1", "f", "3", "5", "2", "c", "0", "7", "3", "b", "6", "1", "0", "8", "d", "7",
     "2", "d", "9", "8", "1", "0", "a", "3", "0", "9", "1", "4", "d", "f", "f", "4" >>

VectorPlainHex ==
  << "6", "b", "c", "1", "b", "e", "e", "2", "2", "e", "4", "0", "9", "f", "9", "6",
     "e", "9", "3", "d", "7", "e", "1", "1", "7", "3", "9", "3", "1", "7", "2", "a" >>

VectorCipherHex ==
  << "f", "3", "e", "e", "d", "1", "b", "d", "b", "5", "d", "2", "a", "0", "3", "c",
     "0", "6", "4", "b", "5", "a", "7", "e", "3", "d", "b", "1", "8", "1", "f", "8" >>

RECURSIVE patternBytes(_, _, _)
\* length bytes: start, start + step, start + 2 * step, ... modulo 256
patternBytes(length, start, step) ==
  IF length <= 0 THEN << >>
  ELSE << start % 256 >> \o patternBytes(length - 1, start + step, step)

\* the 32-byte keys: the two known-answer keys, decoded
Keys ==
  { hexToBytes(VectorKeyHex), hexToBytes(Fips197KeyHex) }

\* the longest plaintext has MaxBlocks whole blocks and one byte more
MaxBlocks ==
  2

\* plaintexts that end just before, on and just after a block boundary
TextLengths ==
  {n \in 0..(16 * MaxBlocks + 1) : n % 16 \in {0, 1, 15}}

\* a ramp, and a constant run of 1s (every byte looks like padding)
TextPatterns ==
  { << 7, 3 >>, << 1, 0 >> }

PlainInputs ==
  {patternBytes(n, p[1], p[2]) : n \in TextLengths, p \in TextPatterns}

\* block-aligned plaintexts that are no valid padded text: a final byte 0,
\* a final byte above 16, trailing bytes that disagree with the final byte;
\* and two that are valid: only padding, and one byte of padding
UnpaddedPlain ==
  { patternBytes(15, 7, 3) \o << 0 >>,
    patternBytes(15, 7, 3) \o << 17 >>,
    patternBytes(15, 7, 3) \o << 255 >>,
    patternBytes(13, 7, 3) \o << 5, 3, 3 >>,
    << 9 >> \o patternBytes(15, 16, 0),
    patternBytes(31, 7, 3) \o << 0 >>,
    patternBytes(16, 2, 0) \o patternBytes(14, 7, 3) \o << 3, 2 >>,
    patternBytes(16, 16, 0),
    patternBytes(31, 7, 3) \o << 1 >> }

\* the ciphertexts whose blocks decrypt, under key k, to UnpaddedPlain
RawCiphers(k) ==
  {encryptBlocks(m, 0, expandKey(k).roundKeys) : m \in UnpaddedPlain}

\* one-block ciphertexts of two short texts, cut to 15 bytes; under one of
\* the keys each ends in a byte 0 before the cut
ShortenedCiphers(k) ==
  {Slice(encryptBlocks(padData(m), 0, expandKey(k).roundKeys), 0, 15) :
     m \in { << 10, 13, 16, 19 >>, << 7, 10 >> }}

\* ciphertexts of any length, whole blocks or not, and one of two equal
\* blocks
OtherCiphers ==
  {patternBytes(n, 101, 7) : n \in {0, 1, 15, 16, 17, 32, 33}} \cup
  { patternBytes(32, 60, 0) }

CipherInputs(k) ==
  RawCiphers(k) \cup ShortenedCiphers(k) \cup OtherCiphers

\* 16-byte blocks: the known-answer plaintext, constant runs and ramps
BlockInputs ==
  { hexToBytes(VectorPlainHex) } \cup
  {patternBytes(16, p[1], p[2]) :
     p \in { << 0, 0 >>, << 255, 0 >>, << 16, 0 >>, << 0, 17 >>, << 7, 3 >>,
             << 200, 1 >>, << 128, 5 >>, << 1, 0 >> }}

\* the longest byte sequence given to the padding functions
MaxPadLength ==
  33

\* constant runs of 0, 1, 2, 16 and 17, and two ramps
PadFills ==
  { << 0, 0 >>, << 1, 0 >>, << 2, 0 >>, << 16, 0 >>, << 17, 0 >>,
    << 1, 1 >>, << 200, 1 >>, << 255, 1 >> }

PadInputs ==
  {patternBytes(n, p[1], p[2]) : n \in 0..MaxPadLength, p \in PadFills}

\* other arguments of a second call: the bytes with another first byte, and
\* the bytes without their last byte
Variants(bytes) ==
  IF bytes = << >> THEN {}
  ELSE { << (bytes[1] + 1) % 256 >> \o Tail(bytes),
         SubSeq(bytes, 1, Len(bytes) - 1) }

\* keys of the right and of wrong lengths
KeyLengths ==
  {0, 16, 31, 32, 33}

UtilKeys ==
  {patternBytes(n, 0, 1) : n \in KeyLengths} \cup Keys \cup
  { patternBytes(32, 0, 0), patternBytes(32, 255, 0), patternBytes(32, 7, 13) }

\* hexadecimal texts: even and odd numbers of digits, other characters
HexTexts ==
  { VectorKeyHex, Fips197KeyHex, VectorPlainHex, VectorCipherHex,
    << >>, << "a" >>, << "a", "b", "c" >>,
    << "0", "x", "F", "f", " ", "1", "\n", "0" >>,
    << "0", "x", "F", "f", " ", "1" >>,
    << "g", "h" >> }

\* what a user may put between the digits of a hexadecimal text: nothing,
\* white space, punctuation, letters that are no digits
Separators ==
  { << >>, << " " >>, << "\n" >>, << ":", " " >>, << "g" >> }

\* a separator goes after every digit or after every second digit
SeparatorGroups ==
  {1, 2}

RECURSIVE separated(_, _, _, _)
\* text with separator after each group characters; index counts from 1
separated(text, separator, group, index) ==
  IF text = << >> THEN << >>
  ELSE << Head(text) >> \o (IF index % group = 0 THEN separator ELSE << >>) \o
       separated(Tail(text), separator, group, index + 1)

\* ------------------------------------------------------------------------
\* The state: a caller holds a key and makes calls; call is the last call
\* with its argument and what it returned, prev the call before it
\* ------------------------------------------------------------------------

VARIABLES key, call, prev

\* The state of the App component (App.jsx 17-36), with key above: pending
\* are the passphrases whose derivations are in flight, due the effects
\* whose dependencies changed in the last commit, events the number of user
\* events so far
VARIABLES mode, plainText, cipherText, passphrase, showRoundDetails,
          roundDetails, keyExpansionDetails, completeCipherPerRound, error,
          pending, due, events

appVars ==
  << mode, plainText, cipherText, passphrase, showRoundDetails, roundDetails,
     keyExpansionDetails, completeCipherPerRound, error, pending, due, events >>

vars ==
  << key, call, prev, appVars >>

\* no App is mounted where the functions are called directly
AppUnmounted ==
  /\ mode = "encrypt" /\ plainText = << >> /\ cipherText = << >>
  /\ passphrase = << >> /\ showRoundDetails = FALSE
  /\ roundDetails = null /\ keyExpansionDetails = null
  /\ completeCipherPerRound = null /\ error = ""
  /\ pending = << >> /\ due = {} /\ events = 0

\* what a finished call hands to the next one
Output(c) ==
  CASE c.fn = "input" -> c.value
    [] c.fn = "encryptText" -> c.result.cipherBytes
    [] c.fn = "encryptBlock" -> c.result.encryptedBlock
    [] c.fn = "decryptBlocks" -> c.arg
    [] c.fn = "padData" -> c.result.value
    [] c.fn = "bytesToHex" -> c.result.value
    [] OTHER -> c.result.value

\* the next call takes the caller's input
OnInput(kind) ==
  call.fn = "input" /\ call.kind = kind

\* the next call takes what the call fn, made on the input, returned
After(fn) ==
  call.fn = fn /\ prev.fn = "input" /\ ~call.result.threw

Input(kind, value) ==
  [fn |-> "input", kind |-> kind, value |-> value]

Init ==
  /\ AppUnmounted
  /\ key \in Keys
  /\ \/ \E v \in PlainInputs : call = Input("plain", v)
     \/ \E v \in CipherInputs(key) : call = Input("cipher", v)
  /\ prev = [fn |-> "none"]

InitBlock ==
  /\ AppUnmounted
  /\ key \in Keys
  /\ \E v \in BlockInputs : call = Input("block", v)
  /\ prev = [fn |-> "none"]

InitUtil ==
  /\ AppUnmounted
  /\ key \in UtilKeys
  /\ \/ \E v \in PadInputs : call = Input("bytes", v)
     \/ \E v \in HexTexts : call = Input("text", v)
  /\ prev = [fn |-> "none"]

\* encryptText(plainBytes, key, trackRounds) on the caller's plaintext
EncryptText(trackRounds) ==
  /\ OnInput("plain")
  /\ call' = [fn |-> "encryptText", arg |-> Output(call),
              trackRounds |-> trackRounds,
              result |-> encryptText(Output(call), key, trackRounds)]
  /\ prev' = call
  /\ UNCHANGED << key, appVars >>

\* decryptBlock on every 16-byte slice of the caller's ciphertext, the
\* results concatenated: the decrypted blocks before unpadding
DecryptBlocks ==
  /\ OnInput("cipher")
  /\ \E roundKeys \in {expandKey(key).roundKeys} :
       call' = [fn |-> "decryptBlocks", arg |-> Output(call),
                result |-> [threw |-> FALSE,
                            value |-> decryptBlocks(Output(call), 0, roundKeys)]]
  /\ prev' = call
  /\ UNCHANGED << key, appVars >>

\* decryptText(cipherBytes, key, trackRounds) on what encryptText returned,
\* or on the caller's ciphertext
DecryptText(trackRounds) ==
  /\ After("encryptText") \/ After("decryptBlocks")
  /\ call' = [fn |-> "decryptText", arg |-> Output(call),
              trackRounds |-> trackRounds,
              result |-> decryptText(Output(call), key, trackRounds)]
  /\ prev' = call
  /\ UNCHANGED << key, appVars >>

\* encryptBlock(block, expandKey(key).roundKeys, trackRounds)
EncryptBlock(trackRounds) ==
  /\ OnInput("block")
  /\ \E roundKeys \in {expandKey(key).roundKeys} :
       call' = [fn |-> "encryptBlock", arg |-> Output(call),
                trackRounds |-> trackRounds,
                result |-> encryptBlock(Output(call), roundKeys, trackRounds)]
  /\ prev' = call
  /\ UNCHANGED << key, appVars >>

\* the most calls made on one heap
MaxCalls ==
  3

Transformations ==
  {"substituteBytes", "inverseSubstituteBytes", "shiftRows",
   "inverseShiftRows", "mixColumns", "inverseMixColumns", "addRoundKey"}

\* the state of the matrix at an array of the heap, by value
Deref(heap, state) ==
  << heap[heap[state][1]], heap[heap[state][2]],
     heap[heap[state][3]], heap[heap[state][4]] >>

\* a heap that holds the state of a block at array 5 and a round key at
\* array 10
heapOf(state, roundKey) ==
  << state[1], state[2], state[3], state[4], << 1, 2, 3, 4 >>,
     roundKey[1], roundKey[2], roundKey[3], roundKey[4], << 6, 7, 8, 9 >> >>

\* a state as bytesToStateMatrix returns it and a round key of expandKey,
\* the first or the last
InitHeap ==
  /\ AppUnmounted
  /\ key \in Keys
  /\ \E block \in { hexToBytes(VectorPlainHex), patternBytes(16, 0, 17),
                    patternBytes(16, 255, 0) } :
       \E round \in {0, NUMBER_OF_ROUNDS} :
         \E roundKey \in {expandKey(key).roundKeys[round + 1]} :
           call = [fn |-> "input", kind |-> "heap", calls |-> 0,
                   heap |-> heapOf(bytesToStateMatrix(block), roundKey),
                   input |-> 5, roundKey |-> 10, arg |-> 5, output |-> 5,
                   original |-> [input |-> bytesToStateMatrix(block),
                                 roundKey |-> roundKey]]
  /\ prev = [fn |-> "none"]

\* "state = fn(state)" or "state = addRoundKey(state, roundKey)": the
\* function is given the state returned last
Transform(fn) ==
  /\ call.fn \in Transformations \cup {"input", "write"}
  /\ call.kind = "heap"
  /\ call.calls < MaxCalls
  /\ \E returned \in {transformInHeap(fn, call.heap, call.output,
                                      call.roundKey)} :
       call' = [call EXCEPT !.fn = fn, !.calls = @ + 1,
                            !.heap = returned.heap,
                            !.arg = call.output,
                            !.output = returned.at]
  /\ prev' = call
  /\ UNCHANGED << key, appVars >>

\* a write to a cell of the state a transformation returned
WriteReturned ==
  /\ call.fn \in Transformations
  /\ call.kind = "heap"
  /\ call.calls < MaxCalls
  /\ \E row \in {0, 3}, col \in {0, 3} :
       call' = [call EXCEPT
                  !.fn = "write", !.calls = @ + 1,
                  !.heap = writeCell(call.heap, call.output, row, col,
                                     (readCell(call.heap, call.output,
                                               row, col) + 1) % 256)]
  /\ prev' = call
  /\ UNCHANGED << key, appVars >>

\* a 16-byte block with one byte set
oneByteBlock(position, value) ==
  patternBytes(position, 0, 0) \o << value >> \o
  patternBytes(15 - position, 0, 0)

\* every block with one byte set, every value at every position, and the
\* blocks of BlockInputs
MathBlocks ==
  {oneByteBlock(position, value) : position \in 0..15, value \in 1..255}
    \cup BlockInputs

\* the constants with a multiplier of their own
Multipliers ==
  {2, 3, 9, 11, 13, 14}

\* multiplyByTwo .. multiplyByFourteen, by their constant
multiplyBy(n, byte) ==
  CASE n = 2 -> multiplyByTwo(byte)
    [] n = 3 -> multiplyByThree(byte)
    [] n = 9 -> multiplyByNine(byte)
    [] n = 11 -> multiplyByEleven(byte)
    [] n = 13 -> multiplyByThirteen(byte)
    [] n = 14 -> multiplyByFourteen(byte)

\* two bytes, a state or a block
InitMath ==
  /\ AppUnmounted
  /\ key = << >>
  /\ \/ \E a \in 0..255, b \in 0..255 : call = Input("pair", << a, b >>)
     \/ \E v \in MathBlocks : call = Input("state", bytesToStateMatrix(v))
     \/ \E v \in MathBlocks : call = Input("block", v)
  /\ prev = [fn |-> "none"]

\* a call of a function that returns a value and cannot raise
Returned(fn, arg, value) ==
  /\ call' = [fn |-> fn, arg |-> arg,
              result |-> [threw |-> FALSE, value |-> value]]
  /\ prev' = call
  /\ UNCHANGED << key, appVars >>

\* galoisMultiply(a, b)
GaloisMultiply ==
  /\ OnInput("pair")
  /\ Returned("galoisMultiply", call.value,
              galoisMultiply(call.value[1], call.value[2]))

\* multiplyByTwo(a) .. multiplyByFourteen(a): the multiplier of the
\* constant b
MultiplyBy ==
  /\ OnInput("pair")
  /\ call.value[2] \in Multipliers
  /\ Returned("multiplyBy", call.value,
              multiplyBy(call.value[2], call.value[1]))

MixColumns ==
  /\ OnInput("state") \/ After("inverseMixColumns")
  /\ Returned("mixColumns", Output(call), mixColumns(Output(call)))

InverseMixColumns ==
  /\ OnInput("state") \/ After("mixColumns")
  /\ Returned("inverseMixColumns", Output(call),
              inverseMixColumns(Output(call)))

ShiftRows ==
  /\ OnInput("state") \/ After("inverseShiftRows")
  /\ Returned("shiftRows", Output(call), shiftRows(Output(call)))

InverseShiftRows ==
  /\ OnInput("state") \/ After("shiftRows")
  /\ Returned("inverseShiftRows", Output(call),
              inverseShiftRows(Output(call)))

BytesToStateMatrix ==
  /\ OnInput("block") \/ After("stateMatrixToBytes")
  /\ Returned("bytesToStateMatrix", Output(call),
              bytesToStateMatrix(Output(call)))

StateMatrixToBytes ==
  /\ OnInput("state") \/ After("bytesToStateMatrix")
  /\ Returned("stateMatrixToBytes", Output(call),
              stateMatrixToBytes(Output(call)))

\* blocks given to encryptBlock and decryptBlock: 16 bytes, and a slice of
\* 15 bytes as the last slice of a ciphertext can be
StepBlocks ==
  BlockInputs \cup { patternBytes(15, 7, 3) }

InitSteps ==
  /\ AppUnmounted
  /\ key \in Keys
  /\ \E v \in StepBlocks : call = Input("block", v)
  /\ prev = [fn |-> "none"]

\* a call has started and not yet returned or raised
Running(fn) ==
  call.fn = fn /\ call.section \notin {"returned", "threw"}

\* encryptBlock(block, roundKeys, trackRounds) is called: lines 431-444
BeginEncryptBlock(trackRounds) ==
  /\ OnInput("block")
  /\ call' = beginBlock("encryptBlock", Output(call), trackRounds,
                        0, "Initial State")
  /\ prev' = call
  /\ UNCHANGED << key, appVars >>

\* encryptBlock executes its next statement
EncryptBlockStep ==
  /\ Running("encryptBlock")
  /\ \E roundKeys \in {expandKey(key).roundKeys} :
       call' = encryptBlockStep(call, roundKeys)
  /\ UNCHANGED << key, prev, appVars >>

\* decryptBlock(block, roundKeys, trackRounds) is called, on the caller's
\* block or on the block encryptBlock returned
BeginDecryptBlock(trackRounds) ==
  /\ \/ OnInput("block")
     \/ call.fn = "encryptBlock" /\ call.section = "returned"
  /\ call' = beginBlock("decryptBlock",
                        IF call.fn = "input" THEN call.value
                        ELSE call.result.encryptedBlock,
                        trackRounds, NUMBER_OF_ROUNDS,
                        "Initial State (Cipher)")
  /\ prev' = call
  /\ UNCHANGED << key, appVars >>

\* decryptBlock executes its next statement
DecryptBlockStep ==
  /\ Running("decryptBlock")
  /\ \E roundKeys \in {expandKey(key).roundKeys} :
       call' = decryptBlockStep(call, roundKeys)
  /\ UNCHANGED << key, prev, appVars >>

\* decryptBlock(block, expandKey(key).roundKeys, trackRounds) on the
\* caller's block or on what encryptBlock returned
DecryptBlock(trackRounds) ==
  /\ OnInput("block") \/ After("encryptBlock")
  /\ \E roundKeys \in {expandKey(key).roundKeys} :
       call' = [fn |-> "decryptBlock", arg |-> Output(call),
                trackRounds |-> trackRounds,
                result |-> decryptBlock(Output(call), roundKeys, trackRounds)]
  /\ prev' = call
  /\ UNCHANGED << key, appVars >>

PadData ==
  /\ OnInput("bytes")
  /\ call' = [fn |-> "padData", arg |-> Output(call),
              result |-> [threw |-> FALSE, value |-> padData(Output(call))]]
  /\ prev' = call
  /\ UNCHANGED << key, appVars >>

\* unpadData on the caller's bytes or on what padData returned
UnpadData ==
  /\ OnInput("bytes") \/ After("padData")
  /\ call' = [fn |-> "unpadData", arg |-> Output(call),
              result |-> unpadData(Output(call))]
  /\ prev' = call
  /\ UNCHANGED << key, appVars >>

\* expandKey(key); the function has no throw statement
ExpandKey ==
  /\ call.fn = "input"
  /\ call' = [fn |-> "expandKey", arg |-> key,
              result |-> [threw |-> FALSE, value |-> expandKey(key)]]
  /\ prev' = call
  /\ UNCHANGED << key, appVars >>

\* a second call of encryptText under the same key, on the plaintext of the
\* first call or on a variant of it
EncryptTextAgain(trackRounds) ==
  /\ After("encryptText")
  /\ \E plainBytes \in {call.arg} \cup Variants(call.arg) :
       call' = [fn |-> "encryptText", arg |-> plainBytes,
                trackRounds |-> trackRounds,
                result |-> encryptText(plainBytes, key, trackRounds)]
  /\ prev' = call
  /\ UNCHANGED << key, appVars >>

\* decryptText(cipherBytes, key, trackRounds) on the caller's ciphertext
DecryptCipher(trackRounds) ==
  /\ OnInput("cipher")
  /\ call' = [fn |-> "decryptText", arg |-> Output(call),
              trackRounds |-> trackRounds,
              result |-> decryptText(Output(call), key, trackRounds)]
  /\ prev' = call
  /\ UNCHANGED << key, appVars >>

\* a second call of decryptText under the same key, on the ciphertext of
\* the first call or on a variant of it; the first call may have failed
DecryptCipherAgain(trackRounds) ==
  /\ call.fn = "decryptText" /\ prev.fn = "input"
  /\ \E cipherBytes \in {call.arg} \cup Variants(call.arg) :
       call' = [fn |-> "decryptText", arg |-> cipherBytes,
                trackRounds |-> trackRounds,
                result |-> decryptText(cipherBytes, key, trackRounds)]
  /\ prev' = call
  /\ UNCHANGED << key, appVars >>

\* bytesToHex(bytes) on the caller's bytes; the function has no throw
\* statement
BytesToHex ==
  /\ OnInput("bytes")
  /\ call' = [fn |-> "bytesToHex", arg |-> Output(call),
              result |-> [threw |-> FALSE, value |-> bytesToHex(Output(call))]]
  /\ prev' = call
  /\ UNCHANGED << key, appVars >>

\* the texts hexToBytes is called on: the caller's text, or what bytesToHex
\* returned with separators put between its digits
HexArguments ==
  IF OnInput("text") THEN {Output(call)}
  ELSE IF After("bytesToHex")
       THEN {separated(Output(call), separator, group, 1) :
               separator \in Separators, group \in SeparatorGroups}
       ELSE {}

\* hexToBytes(hexString); the function has no throw statement
HexToBytes ==
  \E hexString \in HexArguments :
    /\ call' = [fn |-> "hexToBytes", arg |-> hexString,
                result |-> [threw |-> FALSE, value |-> hexToBytes(hexString)]]
    /\ prev' = call
    /\ UNCHANGED << key, appVars >>

Next ==
  \/ \E trackRounds \in BOOLEAN : EncryptText(trackRounds)
  \/ DecryptBlocks
  \/ \E trackRounds \in BOOLEAN : DecryptText(trackRounds)

NextBlock ==
  \/ \E trackRounds \in BOOLEAN : EncryptBlock(trackRounds)
  \/ \E trackRounds \in BOOLEAN : DecryptBlock(trackRounds)

NextPair ==
  \/ \E trackRounds \in BOOLEAN : EncryptText(trackRounds)
  \/ \E trackRounds \in BOOLEAN : EncryptTextAgain(trackRounds)
  \/ \E trackRounds \in BOOLEAN : DecryptCipher(trackRounds)
  \/ \E trackRounds \in BOOLEAN : DecryptCipherAgain(trackRounds)

NextUtil ==
  \/ PadData
  \/ UnpadData
  \/ ExpandKey
  \/ BytesToHex
  \/ HexToBytes

\* the text functions
Spec ==
  Init /\ [][Next]_vars

\* the block functions
SpecBlock ==
  InitBlock /\ [][NextBlock]_vars

\* two calls of a text function under one key
SpecPair ==
  Init /\ [][NextPair]_vars

\* padding, key expansion and hex decoding
SpecUtil ==
  InitUtil /\ [][NextUtil]_vars

NextMath ==
  \/ GaloisMultiply
  \/ MultiplyBy
  \/ MixColumns
  \/ InverseMixColumns
  \/ ShiftRows
  \/ InverseShiftRows
  \/ BytesToStateMatrix
  \/ StateMatrixToBytes

\* the Galois-field functions and the transformations without a key
SpecMath ==
  InitMath /\ [][NextMath]_vars

NextHeap ==
  \/ \E fn \in Transformations : Transform(fn)
  \/ WriteReturned

\* the transformations on arrays that can be shared
SpecHeap ==
  InitHeap /\ [][NextHeap]_vars

NextSteps ==
  \/ \E trackRounds \in BOOLEAN : BeginEncryptBlock(trackRounds)
  \/ EncryptBlockStep
  \/ \E trackRounds \in BOOLEAN : BeginDecryptBlock(trackRounds)
  \/ DecryptBlockStep

\* the block functions, statement by statement
SpecSteps ==
  InitSteps /\ [][NextSteps]_vars

\* ------------------------------------------------------------------------
\* App.jsx: the component.  A text is a sequence of one-character strings.
\* ------------------------------------------------------------------------

\* the characters of code 0..127; a control character, the quotation mark,
\* the backslash and the grave accent are written U+00XX
CharTable ==
  << "U+0000", "U+0001", "U+0002", "U+0003", "U+0004", "U+0005", "U+0006",
     "U+0007", "U+0008", "U+0009", "\n", "U+000B", "U+000C", "U+000D", "U+000E",
     "U+000F", "U+0010", "U+0011", "U+0012", "U+0013", "U+0014", "U+0015",
     "U+0016", "U+0017", "U+0018", "U+0019", "U+001A", "U+001B", "U+001C",
     "U+001D", "U+001E", "U+001F", " ", "!", "U+0022", "#", "$", "%", "&", "'",
     "(", ")", "*", "+", ",", "-", ".", "/", "0", "1", "2", "3", "4", "5",
     "6", "7", "8", "9", ":", ";", "<", "=", ">", "?", "@", "A", "B", "C",
     "D", "E", "F", "G", "H", "I", "J", "K", "L", "M", "N", "O", "P", "Q",
     "R", "S", "T", "U", "V", "W", "X", "Y", "Z", "[", "U+005C", "]", "^", "_",
     "U+0060", "a", "b", "c", "d", "e", "f", "g", "h", "i", "j", "k", "l", "m",
     "n", "o", "p", "q", "r", "s", "t", "u", "v", "w", "x", "y", "z", "{",
     "|", "}", "~", "U+007F" >>

\* U+FFFD, what TextDecoder gives for a byte that is no UTF-8
ReplacementCharacter ==
  "U+FFFD"

\* the UTF-8 code of a character of CharTable
charCode(char) ==
  CHOOSE code \in 0..127 : CharTable[code + 1] = char

RECURSIVE textToBytes(_)
\* Array.from(new TextEncoder().encode(text))
textToBytes(text) ==
  IF text = << >> THEN << >>
  ELSE (IF Head(text) = ReplacementCharacter THEN << 239, 191, 189 >>
        ELSE << charCode(Head(text)) >>) \o textToBytes(Tail(text))

RECURSIVE bytesToText(_)
\* new TextDecoder().decode(new Uint8Array(bytes)), for bytes that are
\* codes 0..127 or no UTF-8 at all
bytesToText(bytes) ==
  IF bytes = << >> THEN << >>
  ELSE << IF Head(bytes) < 128 THEN CharTable[Head(bytes) + 1]
          ELSE ReplacementCharacter >> \o bytesToText(Tail(bytes))

\* useState('Sir Niaz will give us A Grade')
InitialPlainText ==
  << "S", "i", "r", " ", "N", "i", "a", "z", " ", "w", "i", "l", "l", " ",
     "g", "i", "v", "e", " ", "u", "s", " ", "A", " ", "G", "r", "a", "d",
     "e" >>

\* useState('Sir Niaz is Love')
InitialPassphrase ==
  << "S", "i", "r", " ", "N", "i", "a", "z", " ", "i", "s", " ", "L", "o",
     "v", "e" >>

\* crypto.subtle.digest('SHA-256', ...) of the passphrases of the model, as
\* hexadecimal text
DigestHex(text) ==
  CASE text = InitialPassphrase ->
         << "b", "f", "c", "a", "9", "f", "0", "5", "7", "3", "f", "b", "4", "3",
         "c", "3", "f", "6", "d", "0", "2", "b", "3", "a", "2", "3", "a", "6",
         "b", "4", "0", "3", "a", "7", "0", "5", "1", "1", "a", "3", "4", "f",
         "2", "d", "2", "0", "d", "3", "5", "6", "8", "2", "0", "f", "6", "f",
         "0", "3", "9", "8", "c", "5", "d", "d" >>
    [] text = << "a" >> ->
         << "c", "a", "9", "7", "8", "1", "1", "2", "c", "a", "1", "b", "b", "d",
         "c", "a", "f", "a", "c", "2", "3", "1", "b", "3", "9", "a", "2", "3",
         "d", "c", "4", "d", "a", "7", "8", "6", "e", "f", "f", "8", "1", "4",
         "7", "c", "4", "e", "7", "2", "b", "9", "8", "0", "7", "7", "8", "5",
         "a", "f", "e", "e", "4", "8", "b", "b" >>
    [] text = << "b" >> ->
         << "3", "e", "2", "3", "e", "8", "1", "6", "0", "0", "3", "9", "5", "9",
         "4", "a", "3", "3", "8", "9", "4", "f", "6", "5", "6", "4", "e", "1",
         "b", "1", "3", "4", "8", "b", "b", "d", "7", "a", "0", "0", "8", "8",
         "d", "4", "2", "c", "4", "a", "c", "b", "7", "3", "e", "e", "a", "e",
         "d", "5", "9", "c", "0", "0", "9", "d" >>

\* the key the promise of generateKeyFromPassphrase resolves to
generateKeyFromPassphrase(text) ==
  hexToBytes(DigestHex(text))

\* what the user types into the passphrase field
Passphrases ==
  { << >>, << "a" >>, << "b" >> }

\* what the user types into the input panel in encrypt mode; the empty text
\* is what deleting all of it leaves
TypedPlainTexts ==
  { << >>, << "h", "i" >> }

\* what the user types into the input panel in decrypt mode: nothing, no
\* hexadecimal digit at all, an odd number of digits, one block of digits
TypedCipherTexts ==
  { << >>, << "z", "z" >>, << "a", "b", "c" >>, VectorCipherHex }

\* the user events of a behaviour
MaxEvents ==
  3

\* the values the effects of a commit read, and what they leave as they
\* found it
Render ==
  [mode |-> mode, plainText |-> plainText, cipherText |-> cipherText,
   key |-> key, showRoundDetails |-> showRoundDetails,
   roundDetails |-> roundDetails,
   keyExpansionDetails |-> keyExpansionDetails,
   completeCipherPerRound |-> completeCipherPerRound,
   error |-> error, call |-> call]

\* "if (showRoundDetails) { setRoundDetails(...); ... }"
setDetails(s, result) ==
  IF s.showRoundDetails
  THEN [s EXCEPT !.roundDetails = result.roundDetails,
                 !.keyExpansionDetails = result.keyExpansion,
                 !.completeCipherPerRound = result.completeCipherPerRound]
  ELSE s

\* the call the processing effect makes
Invocation(fn, arg, s) ==
  [fn |-> fn, arg |-> arg, key |-> s.key, trackRounds |-> s.showRoundDetails]

\* the encrypt branch once encryptText returned or raised: the outer catch
\* sets the message of the error
encrypted(s, plainBytes, result) ==
  IF result.threw
  THEN [s EXCEPT !.error = result.error,
                 !.call = Invocation("encryptText", plainBytes, s)]
  ELSE setDetails([s EXCEPT !.cipherText = bytesToHex(result.cipherBytes),
                            !.call = Invocation("encryptText", plainBytes, s)],
                  result)

\* the decrypt branch with a catch that also empties the plain text
decryptedClearingPlainText(s, cipherBytes, result) ==
  IF result.threw
  THEN [s EXCEPT !.error = "Invalid cipher text or key",
                 !.plainText = << >>,
                 !.call = Invocation("decryptText", cipherBytes, s)]
  ELSE setDetails([s EXCEPT !.plainText = bytesToText(result.plainBytes),
                            !.call = Invocation("decryptText", cipherBytes, s)],
                  result)

\* the decrypt branch once decryptText returned or raised: the inner catch
\* sets 'Invalid cipher text or key'
decrypted(s, cipherBytes, result) ==
  IF result.threw
  THEN [s EXCEPT !.error = "Invalid cipher text or key",
                 !.call = Invocation("decryptText", cipherBytes, s)]
  ELSE setDetails([s EXCEPT !.plainText = bytesToText(result.plainBytes),
                            !.call = Invocation("decryptText", cipherBytes, s)],
                  result)

\* the decrypt branch after hexToBytes
decryptBranch(s, cipherBytes) ==
  decrypted(s, cipherBytes,
            decryptText(cipherBytes, s.key, s.showRoundDetails))

\* the encrypt branch after textToBytes
encryptBranch(s, plainBytes) ==
  encrypted(s, plainBytes, encryptText(plainBytes, s.key, s.showRoundDetails))

\* the processing effect after "setError('')"
process(s) ==
  IF s.mode = "encrypt" /\ s.plainText # << >>
  THEN encryptBranch(s, textToBytes(s.plainText))
  ELSE IF s.mode = "decrypt" /\ s.cipherText # << >>
  THEN decryptBranch(s, hexToBytes(s.cipherText))
  ELSE s

\* the processing effect without its test of the key: the functions raise
\* a TypeError on null
processingEffectUnguarded(s) ==
  IF s.key = null
  THEN [s EXCEPT !.error = "TypeError",
                 !.call = Invocation("encryptText", << >>, s)]
  ELSE process([s EXCEPT !.error = ""])

\* the processing effect on the values of a render
processingEffect(s) ==
  IF s.key = null
  THEN [s EXCEPT !.error = "Please enter a passphrase"]
  ELSE process([s EXCEPT !.error = ""])

\* the key-derivation effect: the key it sets and the derivations in flight
keyEffect(oldKey, text, inFlight) ==
  IF text # << >>
  THEN [key |-> oldKey, pending |-> Append(inFlight, text)]
  ELSE [key |-> null, pending |-> inFlight]

\* after mounting: the initial values of useState, both effects due
InitApp ==
  /\ mode = "encrypt"
  /\ plainText = InitialPlainText
  /\ cipherText = << >>
  /\ passphrase = InitialPassphrase
  /\ key = null
  /\ showRoundDetails = FALSE
  /\ roundDetails = null
  /\ keyExpansionDetails = null
  /\ completeCipherPerRound = null
  /\ error = ""
  /\ pending = << >>
  /\ due = {"key", "processing"}
  /\ events = 0
  /\ call = [fn |-> "none"]
  /\ prev = [fn |-> "none"]

\* a user event is handled once the effects of the last commit have run
UserEvent(handler) ==
  /\ due = {}
  /\ events < MaxEvents
  /\ events' = events + 1
  /\ prev' = [fn |-> handler]
  /\ UNCHANGED << call, pending >>

\* onChange of the input panel in encrypt mode
SetPlainText(text) ==
  /\ UserEvent("setPlainText")
  /\ mode = "encrypt" /\ text # plainText
  /\ plainText' = text
  /\ due' = {"processing"}
  /\ UNCHANGED << key, mode, cipherText, passphrase, showRoundDetails,
                  roundDetails, keyExpansionDetails, completeCipherPerRound,
                  error >>

\* onChange of the input panel in decrypt mode
SetCipherText(text) ==
  /\ UserEvent("setCipherText")
  /\ mode = "decrypt" /\ text # cipherText
  /\ cipherText' = text
  /\ due' = {"processing"}
  /\ UNCHANGED << key, mode, plainText, passphrase, showRoundDetails,
                  roundDetails, keyExpansionDetails, completeCipherPerRound,
                  error >>

\* onChange of the passphrase field
SetPassphrase(text) ==
  /\ UserEvent("setPassphrase")
  /\ text # passphrase
  /\ passphrase' = text
  /\ due' = {"key"}
  /\ UNCHANGED << key, mode, plainText, cipherText, showRoundDetails,
                  roundDetails, keyExpansionDetails, completeCipherPerRound,
                  error >>

handleModeSwitch ==
  /\ UserEvent("handleModeSwitch")
  /\ mode' = IF mode = "encrypt" THEN "decrypt" ELSE "encrypt"
  /\ due' = {"processing"}
  /\ UNCHANGED << key, plainText, cipherText, passphrase, showRoundDetails,
                  roundDetails, keyExpansionDetails, completeCipherPerRound,
                  error >>

handleSwap ==
  /\ UserEvent("handleSwap")
  /\ plainText' = cipherText
  /\ cipherText' = plainText
  /\ mode' = IF mode = "encrypt" THEN "decrypt" ELSE "encrypt"
  /\ due' = {"processing"}
  /\ UNCHANGED << key, passphrase, showRoundDetails, roundDetails,
                  keyExpansionDetails, completeCipherPerRound, error >>

\* the effects whose dependencies handleClear changes
dueAfterClear ==
  (IF passphrase # << >> THEN {"key"} ELSE {}) \cup
  (IF plainText # << >> \/ cipherText # << >> \/ key # null
   THEN {"processing"} ELSE {})

handleClear ==
  /\ UserEvent("handleClear")
  /\ plainText' = << >>
  /\ cipherText' = << >>
  /\ passphrase' = << >>
  /\ key' = null
  /\ roundDetails' = null
  /\ keyExpansionDetails' = null
  /\ completeCipherPerRound' = null
  /\ error' = ""
  /\ due' = dueAfterClear
  /\ UNCHANGED << mode, showRoundDetails >>

onToggleRoundDetails ==
  /\ UserEvent("onToggleRoundDetails")
  /\ showRoundDetails' = ~showRoundDetails
  /\ due' = {"processing"}
  /\ UNCHANGED << key, mode, plainText, cipherText, passphrase, roundDetails,
                  keyExpansionDetails, completeCipherPerRound, error >>

\* pending without its element i
withoutPending(i) ==
  SubSeq(pending, 1, i - 1) \o SubSeq(pending, i + 1, Len(pending))

\* the promise of a derivation in flight resolves, whichever it is:
\* "setKey(generatedKey)" with a new array
ResolveKey(i) ==
  /\ due = {}
  /\ key' = generateKeyFromPassphrase(pending[i])
  /\ pending' = withoutPending(i)
  /\ due' = {"processing"}
  /\ UNCHANGED << call, prev, mode, plainText, cipherText, passphrase,
                  showRoundDetails, roundDetails, keyExpansionDetails,
                  completeCipherPerRound, error, events >>

\* the effects whose dependencies the effects of a commit changed; the
\* key-derivation effect changes the key only by "setKey(null)"
dueAfterEffects(processed, derived) ==
  IF \/ processed.plainText # plainText
     \/ processed.cipherText # cipherText
     \/ (derived.key = null /\ key # null)
  THEN {"processing"} ELSE {}

\* the effects of one commit, both on the values of its render: the
\* key-derivation effect when the passphrase changed, the processing effect
\* when one of mode, plainText, cipherText, key, showRoundDetails changed
RunEffects ==
  /\ due # {}
  /\ \E processed \in {IF "processing" \in due THEN processingEffect(Render)
                       ELSE Render} :
       \E derived \in {IF "key" \in due THEN keyEffect(key, passphrase, pending)
                       ELSE [key |-> key, pending |-> pending]} :
         /\ plainText' = processed.plainText
         /\ cipherText' = processed.cipherText
         /\ roundDetails' = processed.roundDetails
         /\ keyExpansionDetails' = processed.keyExpansionDetails
         /\ completeCipherPerRound' = processed.completeCipherPerRound
         /\ error' = processed.error
         /\ call' = processed.call
         /\ key' = derived.key
         /\ pending' = derived.pending
         /\ due' = dueAfterEffects(processed, derived)
  /\ UNCHANGED << prev, mode, passphrase, showRoundDetails, events >>

NextApp ==
  \/ \E text \in TypedPlainTexts : SetPlainText(text)
  \/ \E text \in TypedCipherTexts : SetCipherText(text)
  \/ \E text \in Passphrases : SetPassphrase(text)
  \/ handleModeSwitch
  \/ handleSwap
  \/ handleClear
  \/ onToggleRoundDetails
  \/ \E i \in 1..Len(pending) : ResolveKey(i)
  \/ RunEffects

\* the App: user events, derivations resolving, effects
SpecApp ==
  InitApp /\ [][NextApp]_vars

\* ------------------------------------------------------------------------
\* Properties
\* ------------------------------------------------------------------------

\* C1: stream round trip.  encryptText returns for every plaintext, and
\* decryptText of the cipherBytes it returned, under the same 32-byte key,
\* returns plainBytes equal to the plaintext, whatever trackRounds is in
\* either call.
C1_StreamRoundTrip ==
  /\ call.fn = "encryptText" => ~call.result.threw
  /\ (call.fn = "decryptText" /\ prev.fn = "encryptText")
       => /\ ~call.result.threw
          /\ call.result.plainBytes = prev.arg

\* a 32-byte plaintext (a multiple of 16) came back from the round-by-round
\* path of decryptText
C1_Witness ==
  /\ call.fn = "decryptText" /\ prev.fn = "encryptText"
  /\ Len(key) = 32
  /\ Len(prev.arg) = 32
  /\ Len(call.arg) = 48
  /\ call.trackRounds /\ ~prev.trackRounds
  /\ ~call.result.threw
  /\ call.result.plainBytes = prev.arg

\* C2: block round trip.  decryptBlock of the encryptedBlock that
\* encryptBlock returned for a 16-byte block, under the round keys of the
\* same 32-byte key, returns a decryptedBlock equal to the block.
C2_BlockRoundTrip ==
  (call.fn = "decryptBlock" /\ prev.fn = "encryptBlock")
    => /\ ~call.result.threw
       /\ call.result.decryptedBlock = prev.arg

\* a block came back, and its ciphertext differs from it
C2_Witness ==
  /\ call.fn = "decryptBlock" /\ prev.fn = "encryptBlock"
  /\ Len(key) = 32
  /\ Len(prev.arg) = 16
  /\ call.arg # prev.arg
  /\ ~call.result.threw
  /\ call.result.decryptedBlock = prev.arg

\* C3 as the specification prints it: under the key decoded from the 63
\* digits 603deb10...0914dff, encryptBlock of 6bc1bee2...7393172a returns
\* f3eed1bd...3db181f8.
C3_KnownAnswerAsPrinted ==
  (/\ call.fn = "encryptBlock"
   /\ key = hexToBytes(VectorKeyHex)
   /\ call.arg = hexToBytes(VectorPlainHex))
    => /\ ~call.result.threw
       /\ call.result.encryptedBlock = hexToBytes(VectorCipherHex)

\* C3: known-answer vector.  Under the key decoded from the 64 digits
\* 603deb10...0914dff4 (the key of FIPS-197's AES-256 example, decoded with
\* hexToBytes and expanded with expandKey), encryptBlock of the block
\* 6bc1bee2...7393172a returns the block f3eed1bd...3db181f8.
C3_KnownAnswer ==
  (/\ call.fn = "encryptBlock"
   /\ key = hexToBytes(Fips197KeyHex)
   /\ call.arg = hexToBytes(VectorPlainHex))
    => /\ ~call.result.threw
       /\ call.result.encryptedBlock = hexToBytes(VectorCipherHex)

\* encryptBlock returned the expected ciphertext for the vector
C3_Witness ==
  /\ call.fn = "encryptBlock"
  /\ key = hexToBytes(Fips197KeyHex)
  /\ Len(key) = 32
  /\ call.arg = hexToBytes(VectorPlainHex)
  /\ bytesToHex(call.result.encryptedBlock) = VectorCipherHex

\* C4: padData returns the input followed by n = 16 - (length mod 16) bytes
\* of value n: n is in 1..16, the length of the result is a positive
\* multiple of 16, and block-aligned input (the empty input too) gains
\* sixteen bytes of value 16.
C4_PadData ==
  call.fn = "padData" =>
    LET data == call.arg
        padded == call.result.value
        n == 16 - (Len(data) % 16)
    IN  /\ ~call.result.threw
        /\ n \in 1..16
        /\ Len(padded) = Len(data) + n
        /\ Len(padded) > 0 /\ Len(padded) % 16 = 0
        /\ SubSeq(padded, 1, Len(data)) = data
        /\ \A i \in (Len(data) + 1)..Len(padded) : padded[i] = n
        /\ (Len(data) % 16 = 0 =>
              SubSeq(padded, Len(data) + 1, Len(padded)) =
                << 16, 16, 16, 16, 16, 16, 16, 16,
                   16, 16, 16, 16, 16, 16, 16, 16 >>)

\* 32 bytes were padded to 48 with a block of 16s
C4_Witness ==
  /\ call.fn = "padData"
  /\ Len(call.arg) = 32
  /\ Len(call.result.value) = 48
  /\ call.result.value[33] = 16 /\ call.result.value[48] = 16

\* C5: padding round trip.  unpadData of what padData returned for a byte
\* sequence returns that byte sequence, also when the sequence itself ends
\* in bytes that look like padding.
C5_PadRoundTrip ==
  (call.fn = "unpadData" /\ prev.fn = "padData")
    => /\ ~call.result.threw
       /\ call.result.value = prev.arg

\* sixteen bytes of value 16, which look like a block of padding, came back
C5_Witness ==
  /\ call.fn = "unpadData" /\ prev.fn = "padData"
  /\ Len(prev.arg) = 16
  /\ \A i \in 1..16 : prev.arg[i] = 16
  /\ Len(call.arg) = 32
  /\ ~call.result.threw
  /\ call.result.value = prev.arg

\* the last byte n of bytes is 0, is above 16, or is not the value of all of
\* the last n bytes (of which there may be fewer than n)
MalformedPadding(bytes) ==
  LET n == bytes[Len(bytes)]
  IN  \/ n = 0
      \/ n > 16
      \/ n > Len(bytes)
      \/ \E i \in 1..n : bytes[Len(bytes) - i + 1] # n

\* C6: unpadData of a sequence with a last byte n fails with the error
\* "Invalid padding" when n is 0, when n is above 16 or when one of the last
\* n bytes is not n or does not exist; otherwise it returns the sequence
\* without its last n bytes.
C6_UnpadData ==
  (call.fn = "unpadData" /\ Len(call.arg) > 0) =>
    IF MalformedPadding(call.arg)
    THEN /\ call.result.threw
         /\ call.result.error = "Invalid padding"
    ELSE /\ ~call.result.threw
         /\ call.result.value =
              SubSeq(call.arg, 1, Len(call.arg) - call.arg[Len(call.arg)])

\* unpadData failed on fewer than sixteen bytes that are all 16
C6_Witness ==
  /\ call.fn = "unpadData" /\ prev.fn = "input"
  /\ Len(call.arg) \in 1..15
  /\ \A i \in 1..Len(call.arg) : call.arg[i] = 16
  /\ call.result.threw
  /\ call.result.error = "Invalid padding"

\* C7: malformed padding is surfaced.  When the decrypted blocks of a
\* ciphertext, concatenated, end in a byte 0, in a byte above 16 or in
\* bytes that disagree with the last byte, decryptText fails with the error
\* "Invalid padding" and returns no plainBytes, with trackRounds false and
\* with trackRounds true.
C7_MalformedPaddingSurfaced ==
  (/\ call.fn = "decryptText" /\ prev.fn = "decryptBlocks"
   /\ Len(prev.result.value) > 0
   /\ MalformedPadding(prev.result.value))
    => /\ call.result.threw
       /\ call.result.error = "Invalid padding"
       /\ "plainBytes" \notin DOMAIN call.result

\* the round-by-round path failed on two blocks that decrypt to bytes
\* ending in 3, 2
C7_Witness ==
  /\ call.fn = "decryptText" /\ prev.fn = "decryptBlocks"
  /\ call.trackRounds
  /\ Len(prev.result.value) = 32
  /\ prev.result.value[31] = 3 /\ prev.result.value[32] = 2
  /\ call.result.threw
  /\ call.result.error = "Invalid padding"

\* C8: decryptText fails on every ciphertext whose length is 0 or is no
\* multiple of 16, and returns no plainBytes for it.
C8_RejectsBadLength ==
  (/\ call.fn = "decryptText"
   /\ (Len(call.arg) = 0 \/ Len(call.arg) % 16 # 0))
    => /\ call.result.threw
       /\ "plainBytes" \notin DOMAIN call.result

\* C9: expandKey fails on every key whose length is not 32 bytes, and
\* returns no round keys for it.
C9_RejectsBadKeyLength ==
  (call.fn = "expandKey" /\ Len(call.arg) # 32)
    => /\ call.result.threw
       /\ "value" \notin DOMAIN call.result

\* C10: hexToBytes fails on every text that has, without its characters
\* that are no hexadecimal digits, an odd number of digits, and returns no
\* bytes for it.
C10_RejectsOddDigits ==
  (/\ call.fn = "hexToBytes"
   /\ Cardinality({i \in 1..Len(call.arg) : isHexChar(call.arg[i])}) % 2 = 1)
    => /\ call.result.threw
       /\ "value" \notin DOMAIN call.result

\* C11: hex round trip.  bytesToHex of a byte sequence is a text of exactly
\* two lowercase hexadecimal digits for each byte and nothing else, and
\* hexToBytes of that text returns the byte sequence, also when white space
\* or other characters that are no hexadecimal digits are put between its
\* digits.
C11_HexRoundTrip ==
  /\ call.fn = "bytesToHex" =>
       /\ ~call.result.threw
       /\ Len(call.result.value) = 2 * Len(call.arg)
       /\ \A i \in 1..Len(call.result.value) :
            \E d \in 1..16 : call.result.value[i] = HexDigits[d]
  /\ (call.fn = "hexToBytes" /\ prev.fn = "bytesToHex") =>
       /\ ~call.result.threw
       /\ call.result.value = prev.arg

\* bytes 255, 0, 1, ... came back from their text with a separator after
\* every digit
C11_Witness ==
  /\ call.fn = "hexToBytes" /\ prev.fn = "bytesToHex"
  /\ Len(prev.arg) = MaxPadLength
  /\ prev.arg[1] = 255 /\ prev.arg[2] = 0 /\ prev.arg[12] = 10
  /\ Len(call.arg) = 6 * Len(prev.arg)
  /\ call.arg[2] = ":" /\ call.arg[3] = " "
  /\ call.result.value = prev.arg

\* word i (from 0) of the schedule of a call of expandKey: the first eight
\* are bytes of the key, the others are the results of the expansion steps
ScheduleWord(c, i) ==
  IF i < KEY_SIZE_WORDS
  THEN << c.arg[4 * i + 1], c.arg[4 * i + 2], c.arg[4 * i + 3],
          c.arg[4 * i + 4] >>
  ELSE c.result.value.expansionDetails[i - KEY_SIZE_WORDS + 1].result

\* C12: for a 32-byte key expandKey returns exactly 15 round keys, each a
\* 4x4 matrix of bytes whose column c is word 4 * round + c of a schedule of
\* 60 words, and the first round key is the key column-wise: its column c,
\* row r is key[4 * c + r].
C12_RoundKeys ==
  (call.fn = "expandKey" /\ Len(call.arg) = 32) =>
    LET roundKeys == call.result.value.roundKeys
    IN  /\ ~call.result.threw
        /\ Len(roundKeys) = 15
        /\ KEY_SIZE_WORDS + Len(call.result.value.expansionDetails) = 60
        /\ \A round \in 0..14 :
             /\ Len(roundKeys[round + 1]) = 4
             /\ \A r \in 0..3 :
                  /\ Len(roundKeys[round + 1][r + 1]) = 4
                  /\ \A c \in 0..3 :
                       /\ roundKeys[round + 1][r + 1][c + 1] \in 0..255
                       /\ roundKeys[round + 1][r + 1][c + 1] =
                            ScheduleWord(call, 4 * round + c)[r + 1]
        /\ \A r \in 0..3 : \A c \in 0..3 :
             roundKeys[1][r + 1][c + 1] = call.arg[4 * c + r + 1]

\* the schedule of the key 603deb10...0914dff4 was returned: the last column
\* of the last round key is the word 706c631e
C12_Witness ==
  /\ call.fn = "expandKey"
  /\ call.arg = hexToBytes(Fips197KeyHex)
  /\ Len(call.result.value.roundKeys) = 15
  /\ call.result.value.roundKeys[1][2][1] = 61
  /\ call.result.value.roundKeys[15][1][4] = 112
  /\ call.result.value.roundKeys[15][2][4] = 108
  /\ call.result.value.roundKeys[15][3][4] = 99
  /\ call.result.value.roundKeys[15][4][4] = 30

\* block i (from 0) of a byte sequence; the last one may be short
BlockOf(bytes, i) ==
  SubSeq(bytes, 16 * i + 1,
         IF 16 * i + 16 <= Len(bytes) THEN 16 * i + 16 ELSE Len(bytes))

\* the indices of the blocks of a byte sequence
BlocksOf(bytes) ==
  {i \in 0..Len(bytes) : 16 * i < Len(bytes)}

\* the bytes a call of decryptText hands to unpadData: fullPlain of the
\* round-by-round path, tempPlainBytes of the block-by-block path
BeforeUnpad(c) ==
  IF c.trackRounds
  THEN collect(decryptTracked(c.arg, expandKey(key).roundKeys).blockStates)
  ELSE decryptBlocks(c.arg, 0, expandKey(key).roundKeys)

\* equal blocks of one input give equal blocks of its output
EqualBlocksWithin(input, output) ==
  \A i \in BlocksOf(input) : \A j \in BlocksOf(input) :
    BlockOf(input, i) = BlockOf(input, j) =>
      BlockOf(output, i) = BlockOf(output, j)

\* where two inputs agree on block i, their outputs agree on block i
EqualBlocksAcross(input, output, otherInput, otherOutput) ==
  \A i \in BlocksOf(input) \cap BlocksOf(otherInput) :
    BlockOf(input, i) = BlockOf(otherInput, i) =>
      BlockOf(output, i) = BlockOf(otherOutput, i)

\* the round-by-round path stored the bytes it handed to unpadData as
\* completeCipherPerRound[0]
StoredBeforeUnpad(c, plain) ==
  (c.trackRounds /\ ~c.result.threw) =>
    c.result.completeCipherPerRound[0] = plain

\* C13: independent block processing.  Two calls of encryptText under one
\* key whose padded plaintexts agree on block i return cipherBytes that agree
\* on block i, whatever the other blocks and trackRounds are, and equal
\* blocks of one padded plaintext give equal cipher blocks; the same holds
\* for the blocks of a ciphertext and the bytes decryptText hands to
\* unpadData.
C13_IndependentBlocks ==
  /\ call.fn = "encryptText" =>
       /\ Len(call.result.cipherBytes) =
            Len(call.arg) + (16 - (Len(call.arg) % 16))
       /\ EqualBlocksWithin(padData(call.arg), call.result.cipherBytes)
  /\ (call.fn = "encryptText" /\ prev.fn = "encryptText") =>
       EqualBlocksAcross(padData(call.arg), call.result.cipherBytes,
                         padData(prev.arg), prev.result.cipherBytes)
  /\ (call.fn = "decryptText" /\ prev.fn = "decryptText") =>
       \E plain \in {BeforeUnpad(call)} :
         /\ StoredBeforeUnpad(call, plain)
         /\ EqualBlocksWithin(call.arg, plain)
         /\ EqualBlocksAcross(call.arg, plain, prev.arg, BeforeUnpad(prev))

\* two plaintexts of 33 bytes that differ in their first byte only were
\* encrypted, one round by round and one block by block: the cipher blocks
\* 0 differ, the cipher blocks 1 and 2 agree, and within the message of
\* bytes 1 the cipher blocks 0 and 1 agree
C13_Witness ==
  /\ call.fn = "encryptText" /\ prev.fn = "encryptText"
  /\ call.trackRounds /\ ~prev.trackRounds
  /\ Len(call.arg) = 33 /\ Len(prev.arg) = 33
  /\ prev.arg[1] = 1 /\ prev.arg[17] = 1 /\ call.arg[1] = 2
  /\ Tail(call.arg) = Tail(prev.arg)
  /\ BlockOf(call.result.cipherBytes, 0) # BlockOf(prev.result.cipherBytes, 0)
  /\ BlockOf(call.result.cipherBytes, 1) = BlockOf(prev.result.cipherBytes, 1)
  /\ BlockOf(call.result.cipherBytes, 2) = BlockOf(prev.result.cipherBytes, 2)
  /\ BlockOf(prev.result.cipherBytes, 0) = BlockOf(prev.result.cipherBytes, 1)

\* what a call of a text function yields: its bytes, or its error
Yield(c) ==
  IF c.result.threw THEN << "error", c.result.error >>
  ELSE IF c.fn = "encryptText" THEN << "bytes", c.result.cipherBytes >>
  ELSE << "bytes", c.result.plainBytes >>

\* C14: tracking does not change the result.  Two calls of encryptText on
\* one plaintext under one key return the same cipherBytes, and two calls of
\* decryptText on one ciphertext under one key yield the same plainBytes or
\* the same error, whatever trackRounds is in either call.
C14_TrackingSameResult ==
  (/\ call.fn \in {"encryptText", "decryptText"}
   /\ prev.fn = call.fn
   /\ prev.arg = call.arg)
    => Yield(call) = Yield(prev)

\* C15: a text function called with trackRounds false returns no
\* instrumentation: roundDetails is empty, completeCipherPerRound is null
\* and no round keys and no key-expansion step details are returned.
C15_NoTraceUnlessRequested ==
  (/\ call.fn \in {"encryptText", "decryptText"}
   /\ ~call.trackRounds
   /\ ~call.result.threw)
    => /\ call.result.roundDetails = << >>
       /\ call.result.completeCipherPerRound = null
       /\ "keyExpansion" \notin DOMAIN call.result

\* the keys of the passphrases the App can hold
DerivedKeys ==
  {generateKeyFromPassphrase(text) :
     text \in (Passphrases \cup {InitialPassphrase}) \ {<< >>}}

\* C16: key derivation completes before first use.  Every call of
\* encryptText or decryptText the App makes has a key that is not null and
\* is the derivation of a passphrase; and when the processing effect runs
\* while key is null it makes no call, leaves plainText and cipherText as
\* they are and sets error to 'Please enter a passphrase'.
C16_KeyBeforeUse ==
  [][/\ (call' # call) =>
          /\ call'.fn \in {"encryptText", "decryptText"}
          /\ call'.key # null
          /\ call'.key \in DerivedKeys
     /\ ("processing" \in due /\ key = null) =>
          /\ call' = call
          /\ plainText' = plainText
          /\ cipherText' = cipherText
          /\ error' = "Please enter a passphrase"]_vars

\* the first call: after mounting, the processing effect ran without a key
\* and set the error, the derivation of 'Sir Niaz is Love' resolved, and
\* the processing effect called encryptText with that key
C16_Witness ==
  /\ events = 0 /\ due = {} /\ pending = << >>
  /\ call.fn = "encryptText"
  /\ call.key = generateKeyFromPassphrase(InitialPassphrase)
  /\ call.arg = textToBytes(InitialPlainText)
  /\ key = call.key
  /\ error = ""
  /\ Len(cipherText) = 64

\* a state value of the App is null
IsNull(value) ==
  ToString(value) = ToString(null)

\* C17: Clear All resets all inputs and outputs.  When handleClear was the
\* last user event and every effect and every pending derivation has run,
\* plainText, cipherText and passphrase are empty, key is null, and
\* roundDetails, keyExpansionDetails and completeCipherPerRound are null.
C17_ClearAllResets ==
  (prev.fn = "handleClear" /\ due = {} /\ pending = << >>) =>
    /\ plainText = << >>
    /\ cipherText = << >>
    /\ passphrase = << >>
    /\ IsNull(key)
    /\ IsNull(roundDetails)
    /\ IsNull(keyExpansionDetails)
    /\ IsNull(completeCipherPerRound)

\* the value of the textarea of the left panel (InputOutputPanel.jsx 27)
InputPanel ==
  IF mode = "encrypt" THEN plainText ELSE cipherText

\* the value of the textarea of the right panel (InputOutputPanel.jsx 49)
OutputPanel ==
  IF mode = "encrypt" THEN cipherText ELSE plainText

\* C18: the swap button exchanges the panels.  Right after handleSwap the
\* input panel shows the text the output panel showed before, the output
\* panel shows the text the input panel showed before, and mode is the
\* other mode.
C18_SwapExchangesPanels ==
  [][(prev'.fn = "handleSwap" /\ events' = events + 1) =>
       /\ InputPanel' = OutputPanel
       /\ OutputPanel' = InputPanel
       /\ mode' # mode]_vars

\* plainText is the text of the decryption of cipherText when that is a
\* valid ciphertext: it has bytes and decryptText returns
DecryptionShown(result) ==
  (hexToBytes(cipherText) # << >> /\ ~result.threw) =>
    plainText = bytesToText(result.plainBytes)

\* C19: output appears automatically.  Whenever no effect is due and no
\* derivation is in flight, with a key that is not null: in encrypt mode
\* cipherText is bytesToHex of the encryption of plainText under the key,
\* for every plainText, the empty one too; in decrypt mode with a valid
\* cipherText plainText is the text of its decryption.
C19_OutputAutomatic ==
  (due = {} /\ pending = << >> /\ key # null) =>
    /\ mode = "encrypt" =>
         cipherText =
           bytesToHex(encryptText(textToBytes(plainText), key, FALSE).cipherBytes)
    /\ mode = "decrypt" =>
         \E result \in {decryptText(hexToBytes(cipherText), key, FALSE)} :
           DecryptionShown(result)

\* T of the key-schedule recurrence for word index i (from 0):
\* SubWord(RotWord(word)) with Rcon[i / 8] XORed into byte 0 when i mod 8 = 0,
\* SubWord(word) when i mod 8 = 4, word otherwise
ScheduleT(word, i) ==
  IF i % 8 = 0
  THEN << Xor(S_BOX[word[2] + 1], ROUND_CONSTANTS[(i \div 8) + 1]),
          S_BOX[word[3] + 1], S_BOX[word[4] + 1], S_BOX[word[1] + 1] >>
  ELSE IF i % 8 = 4
  THEN << S_BOX[word[1] + 1], S_BOX[word[2] + 1], S_BOX[word[3] + 1],
          S_BOX[word[4] + 1] >>
  ELSE word

\* C20: key-schedule recurrence.  For a 32-byte key and every word index i
\* with 8 <= i < 60, words[i] = T(words[i - 1]) XOR words[i - 8], byte by
\* byte, and the round constant of a step with i mod 8 = 0 is
\* ROUND_CONSTANTS[i / 8] with i / 8 a whole number in 1..7.
C20_ScheduleRecurrence ==
  (call.fn = "expandKey" /\ Len(call.arg) = 32) =>
    \A i \in 8..59 :
      LET step == call.result.value.expansionDetails[i - 7]
          t == ScheduleT(ScheduleWord(call, i - 1), i)
      IN  /\ step.wordIndex = i
          /\ \A b \in 1..4 :
               ScheduleWord(call, i)[b] =
                 Xor(t[b], ScheduleWord(call, i - 8)[b])
          /\ (i % 8 = 0) =>
               /\ 8 * (i \div 8) = i
               /\ (i \div 8) \in 1..7
               /\ step.rconValue = ROUND_CONSTANTS[(i \div 8) + 1]
               /\ step.rconValue \in {1, 2, 4, 8, 16, 32, 64}

\* the schedule of the key 603deb10...0914dff4 was generated: word 8 is
\* 9ba35411, word 12 is a8b09c1a and the step of word 56 used the round
\* constant 0x40
C20_Witness ==
  /\ call.fn = "expandKey"
  /\ call.arg = hexToBytes(Fips197KeyHex)
  /\ call.result.value.expansionDetails[1].result = << 155, 163, 84, 17 >>
  /\ call.result.value.expansionDetails[5].result = << 168, 176, 156, 26 >>
  /\ call.result.value.expansionDetails[49].wordIndex = 56
  /\ call.result.value.expansionDetails[49].rconValue = 64

\* a sequence starts another
IsPrefix(s, t) ==
  Len(s) <= Len(t) /\ s = SubSeq(t, 1, Len(s))

Step(op, round) ==
  [op |-> op, round |-> round]

RECURSIVE EncryptionRounds(_)
\* SubBytes, ShiftRows, MixColumns, AddRoundKey for round, round + 1 .. 13
EncryptionRounds(round) ==
  IF round > 13 THEN << >>
  ELSE << Step("SubBytes", round), Step("ShiftRows", round),
          Step("MixColumns", round), Step("AddRoundKey", round) >>
       \o EncryptionRounds(round + 1)

\* the order of steps the claim states for encryption
EncryptionOrder ==
  << Step("AddRoundKey", 0) >> \o EncryptionRounds(1) \o
  << Step("SubBytes", 14), Step("ShiftRows", 14), Step("AddRoundKey", 14) >>

\* how often a step was applied
Times(steps, op, rounds) ==
  Cardinality({i \in 1..Len(steps) :
                 steps[i].op = op /\ steps[i].round \in rounds})

\* C21: encryption step ordering.  At every point of a call of
\* encryptBlock the transformations applied so far are a prefix of:
\* AddRoundKey with roundKeys[0]; SubBytes, ShiftRows, MixColumns,
\* AddRoundKey with roundKeys[round] for round = 1..13 in increasing order;
\* SubBytes, ShiftRows, AddRoundKey with roundKeys[14].  When the call
\* returns, the whole sequence was applied: MixColumns exactly 13 times and
\* never in round 14, each round key index 0..14 exactly once; and the
\* block returned is the one encryptBlock computes.
C21_EncryptionOrder ==
  call.fn = "encryptBlock" =>
    /\ IsPrefix(call.steps, EncryptionOrder)
    /\ call.section = "returned" =>
         /\ call.steps = EncryptionOrder
         /\ Times(call.steps, "MixColumns", 0..14) = 13
         /\ Times(call.steps, "MixColumns", {14}) = 0
         /\ \A index \in 0..14 :
              Times(call.steps, "AddRoundKey", {index}) = 1
         /\ \E roundKeys \in {expandKey(key).roundKeys} :
              call.result = encryptBlock(call.arg, roundKeys, call.trackRounds)

\* encryptBlock returned after its 56 steps, with details tracked
C21_Witness ==
  /\ call.fn = "encryptBlock" /\ call.section = "returned"
  /\ call.trackRounds
  /\ Len(call.steps) = 56
  /\ call.steps[54].op = "SubBytes" /\ call.steps[54].round = 14
  /\ call.result.encryptedBlock # call.arg

RECURSIVE DecryptionRounds(_)
\* InvShiftRows, InvSubBytes, AddRoundKey, InvMixColumns for round,
\* round - 1 .. 1
DecryptionRounds(round) ==
  IF round < 1 THEN << >>
  ELSE << Step("InverseShiftRows", round), Step("InverseSubBytes", round),
          Step("AddRoundKey", round), Step("InverseMixColumns", round) >>
       \o DecryptionRounds(round - 1)

\* the order of steps the claim states for decryption
DecryptionOrder ==
  << Step("AddRoundKey", 14) >> \o DecryptionRounds(13) \o
  << Step("InverseShiftRows", 0), Step("InverseSubBytes", 0),
     Step("AddRoundKey", 0) >>

\* the round key indices in the order they were used
RECURSIVE KeyIndices(_)
KeyIndices(steps) ==
  IF steps = << >> THEN << >>
  ELSE (IF Head(steps).op = "AddRoundKey" THEN << Head(steps).round >>
        ELSE << >>) \o KeyIndices(Tail(steps))

\* C22: decryption step ordering.  At every point of a call of
\* decryptBlock the transformations applied so far are a prefix of:
\* AddRoundKey with roundKeys[14]; InvShiftRows, InvSubBytes, AddRoundKey
\* with roundKeys[round], InvMixColumns for round = 13 down to 1;
\* InvShiftRows, InvSubBytes, AddRoundKey with roundKeys[0].  When the call
\* returns, the whole sequence was applied: InvMixColumns exactly 13 times
\* and never in the final round, the round key indices 14, 13 .. 0 each
\* once in decreasing order; and the block returned is the one
\* decryptBlock computes.
C22_DecryptionOrder ==
  call.fn = "decryptBlock" =>
    /\ IsPrefix(call.steps, DecryptionOrder)
    /\ call.section = "returned" =>
         /\ call.steps = DecryptionOrder
         /\ Times(call.steps, "InverseMixColumns", 0..14) = 13
         /\ Times(call.steps, "InverseMixColumns", {0}) = 0
         /\ KeyIndices(call.steps) = [i \in 1..15 |-> 15 - i]
         /\ \E roundKeys \in {expandKey(key).roundKeys} :
              call.result = decryptBlock(call.arg, roundKeys, call.trackRounds)

\* decryptBlock returned, after its 56 steps, the block that encryptBlock
\* was given
C22_Witness ==
  /\ call.fn = "decryptBlock" /\ call.section = "returned"
  /\ prev.fn = "encryptBlock"
  /\ Len(call.steps) = 56
  /\ call.steps[56].op = "AddRoundKey" /\ call.steps[56].round = 0
  /\ call.result.decryptedBlock = prev.arg
  /\ call.result.decryptedBlock # call.arg

\* a multiplier distributes over ^
Linear(n, a, b) ==
  multiplyBy(n, Xor(a, b)) = Xor(multiplyBy(n, a), multiplyBy(n, b))

\* C23: MixColumns and InvMixColumns are exact inverses.
\* inverseMixColumns of what mixColumns returned for a state is that
\* state, and mixColumns of what inverseMixColumns returned is that state:
\* for every state with a single non-zero byte, any value at any position,
\* and for the states of BlockInputs.  Every multiplier distributes over ^
\* for every pair of bytes, so both functions are linear and the round
\* trips of the single-byte states carry over to every state.
C23_MixColumnsInverse ==
  /\ (call.fn = "inverseMixColumns" /\ prev.fn = "mixColumns")
       => call.result.value = prev.arg
  /\ (call.fn = "mixColumns" /\ prev.fn = "inverseMixColumns")
       => call.result.value = prev.arg
  /\ call.fn = "galoisMultiply"
       => \A n \in Multipliers : Linear(n, call.arg[1], call.arg[2])

\* a state came back from mixColumns and inverseMixColumns, changed in
\* between
C23_Witness ==
  /\ call.fn = "inverseMixColumns" /\ prev.fn = "mixColumns"
  /\ prev.arg[1][1] = 255
  /\ prev.result.value # prev.arg
  /\ call.result.value = prev.arg

\* row r of a state rotated by n positions to the left
Rotated(row, n) ==
  [col \in 1..4 |-> row[((col - 1 + n) % 4) + 1]]

\* C24: shiftRows rotates row r of a state by r positions to the left,
\* inverseShiftRows by r positions to the right (4 - r to the left), r =
\* 0..3; row 0 is unchanged by both; inverseShiftRows of what shiftRows
\* returned is the state it was given, and shiftRows of what
\* inverseShiftRows returned is the state it was given.
C24_ShiftRows ==
  /\ call.fn = "shiftRows"
       => /\ \A r \in 0..3 :
               \A col \in 1..4 :
                 call.result.value[r + 1][col] = Rotated(call.arg[r + 1], r)[col]
          /\ call.result.value[1] = call.arg[1]
  /\ call.fn = "inverseShiftRows"
       => /\ \A r \in 0..3 :
               \A col \in 1..4 :
                 call.result.value[r + 1][col]
                   = Rotated(call.arg[r + 1], 4 - r)[col]
          /\ call.result.value[1] = call.arg[1]
  /\ (call.fn = "inverseShiftRows" /\ prev.fn = "shiftRows")
       => call.result.value = prev.arg
  /\ (call.fn = "shiftRows" /\ prev.fn = "inverseShiftRows")
       => call.result.value = prev.arg

\* a state of sixteen different bytes came back from shiftRows and
\* inverseShiftRows, changed in between
C24_Witness ==
  /\ call.fn = "inverseShiftRows" /\ prev.fn = "shiftRows"
  /\ Cardinality({prev.arg[row][col] : row \in 1..4, col \in 1..4}) = 16
  /\ prev.result.value[2] # prev.arg[2]
  /\ prev.result.value[4][1] = prev.arg[4][4]
  /\ call.result.value = prev.arg

\* C25: state conversion is a column-major bijection.  bytesToStateMatrix
\* places byte i of a 16-byte block at row i mod 4, column i div 4;
\* stateMatrixToBytes of the state that bytesToStateMatrix returned is the
\* block, and bytesToStateMatrix of the bytes that stateMatrixToBytes
\* returned for a 4x4 state is the state.
C25_StateConversion ==
  /\ call.fn = "bytesToStateMatrix"
       => \A i \in 0..15 :
            call.result.value[(i % 4) + 1][(i \div 4) + 1] = call.arg[i + 1]
  /\ (call.fn = "stateMatrixToBytes" /\ prev.fn = "bytesToStateMatrix")
       => call.result.value = prev.arg
  /\ (call.fn = "bytesToStateMatrix" /\ prev.fn = "stateMatrixToBytes")
       => call.result.value = prev.arg

\* a block of sixteen different bytes came back from bytesToStateMatrix
\* and stateMatrixToBytes, its second byte in row 1 of column 0
C25_Witness ==
  /\ call.fn = "stateMatrixToBytes" /\ prev.fn = "bytesToStateMatrix"
  /\ Cardinality({prev.arg[i] : i \in 1..16}) = 16
  /\ prev.result.value[2][1] = prev.arg[2]
  /\ call.result.value = prev.arg

\* C27: the fixed-constant multipliers agree with the general
\* multiplication.  For every byte b, multiplyByTwo(b) = galoisMultiply(b,
\* 2), multiplyByThree(b) = galoisMultiply(b, 3), and so for 9, 11, 13 and
\* 14.
C27_MultipliersAgree ==
  call.fn = "multiplyBy"
    => call.result.value = galoisMultiply(call.arg[1], call.arg[2])

\* multiplyByEleven(0x80) = galoisMultiply(0x80, 11), a product that was
\* reduced
C27_Witness ==
  /\ call.fn = "multiplyBy"
  /\ call.arg = << 128, 11 >>
  /\ call.result.value = galoisMultiply(128, 11)
  /\ call.result.value # 128 * 11

\* C28: the GF(2^8) operations are closed over the byte range.  For all
\* bytes a and b galoisMultiply(a, b) returns a value in 0..255, and so do
\* multiplyByTwo .. multiplyByFourteen; none raises.
C28_ByteRange ==
  call.fn \in {"galoisMultiply", "multiplyBy"}
    => /\ ~call.result.threw
       /\ call.result.value \in 0..255

\* galoisMultiply(255, 255) returned a byte although its accumulator
\* passed 255
C28_Witness ==
  /\ call.fn = "galoisMultiply"
  /\ call.arg = << 255, 255 >>
  /\ galoisLoop(0, 0, 255, 255) > 255
  /\ call.result.value \in 0..255

\* the arrays a state matrix is made of
Arrays(heap, state) ==
  {state} \cup {heap[state][row] : row \in 1..4}

\* the transformation fn by value
transformation(fn, state, roundKey) ==
  CASE fn = "substituteBytes" -> substituteBytes(state)
    [] fn = "inverseSubstituteBytes" -> inverseSubstituteBytes(state)
    [] fn = "shiftRows" -> shiftRows(state)
    [] fn = "inverseShiftRows" -> inverseShiftRows(state)
    [] fn = "mixColumns" -> mixColumns(state)
    [] fn = "inverseMixColumns" -> inverseMixColumns(state)
    [] fn = "addRoundKey" -> addRoundKey(state, roundKey)

\* C26: no transformation mutates or aliases its input.  After
\* substituteBytes, inverseSubstituteBytes, shiftRows, inverseShiftRows,
\* mixColumns, inverseMixColumns or addRoundKey returns, the state it was
\* given and the round key hold the values they held before, the state
\* returned shares no array with either, and it holds the value of the
\* transformation; a later write to a cell of the returned state changes
\* neither the state it was computed from nor the round key; so the state
\* of the block and the round key are as they were after any sequence of
\* these calls.
C26_NoMutationNoAliasing ==
  /\ Deref(call.heap, call.input) = call.original.input
  /\ Deref(call.heap, call.roundKey) = call.original.roundKey
  /\ call.fn \in Transformations =>
       /\ Deref(call.heap, call.arg) = Deref(prev.heap, call.arg)
       /\ Arrays(call.heap, call.output) \cap
            (Arrays(call.heap, call.arg) \cup
             Arrays(call.heap, call.roundKey)) = {}
       /\ Deref(call.heap, call.output)
            = transformation(call.fn, Deref(prev.heap, call.arg),
                             call.original.roundKey)
  /\ call.fn = "write" =>
       /\ Deref(call.heap, call.output) # Deref(prev.heap, call.output)
       /\ Deref(call.heap, call.arg) = Deref(prev.heap, call.arg)

\* a cell of the state that substituteBytes returned was written after
\* addRoundKey and substituteBytes, and the first state and the round key
\* are as they were
C26_Witness ==
  /\ call.fn = "write" /\ prev.fn = "substituteBytes"
  /\ call.calls = 3
  /\ Deref(call.heap, call.output) # Deref(prev.heap, call.output)
  /\ Deref(call.heap, call.arg) # call.original.input
  /\ Deref(call.heap, call.input) = call.original.input
  /\ Deref(call.heap, call.roundKey) = call.original.roundKey

\* C29: the displayed key belongs to the current passphrase.  Once every
\* derivation in flight has resolved and every effect has run, key is the
\* derivation of the current passphrase, and null when the passphrase is
\* empty, whatever the passphrase edits, the Clear All actions and the
\* order in which the derivations resolved.
C29_KeyOfCurrentPassphrase ==
  (pending = << >> /\ due = {}) =>
    IF passphrase = << >> THEN IsNull(key)
    ELSE /\ ~IsNull(key)
         /\ key = generateKeyFromPassphrase(passphrase)

\* the processing effect is about to attempt a decryption that raises
DecryptionFails ==
  /\ "processing" \in due
  /\ mode = "decrypt"
  /\ ~IsNull(key)
  /\ cipherText # << >>
  /\ decryptText(hexToBytes(cipherText), key, showRoundDetails).threw

\* C30: a failed decryption leaves the App's data unchanged.  When the
\* processing effect runs in decrypt mode with a non-null key and a
\* cipherText for which decryptText raises, it sets error to 'Invalid
\* cipher text or key', and plainText, cipherText, key, roundDetails,
\* keyExpansionDetails and completeCipherPerRound keep the values they had
\* before.
C30_FailedDecryption ==
  [][DecryptionFails =>
       /\ error' = "Invalid cipher text or key"
       /\ call'.fn = "decryptText"
       /\ UNCHANGED << plainText, cipherText, key, roundDetails,
                       keyExpansionDetails, completeCipherPerRound >>]_vars

\* a decryption failed with the plain text of an earlier encryption still
\* shown
C30_Witness ==
  /\ mode = "decrypt" /\ due = {}
  /\ error = "Invalid cipher text or key"
  /\ call.fn = "decryptText"
  /\ ~IsNull(key)
  /\ cipherText # << >>
  /\ plainText # << >>
  /\ decryptText(hexToBytes(cipherText), key, showRoundDetails).threw

====
